---- MODULE Spec2Model ----
(***************************************************************************)
(* A model of the ettore RISC-V simulator: the instruction semantics of    *)
(* opcodes.rs, the bit packing of bit.rs, the reference interpreter of     *)
(* opcodes.rs (Runner), the interpreters of mvm1.rs and mvm2.rs and the    *)
(* four-stage pipeline of mvm3.rs.                                         *)
(***************************************************************************)
EXTENDS Integers, Sequences, FiniteSets, Bags, TLC

(***************************************************************************)
(* Bounds of the model.                                                    *)
(***************************************************************************)
\* Longest program drawn from the instruction pool.
MaxLen == 2
\* Semantic steps one machine may run before the model cuts the run off.
MaxSteps == 6
\* Bytes of simulated memory (Context::new(memory_bytes)).
MemSize == 6
\* Cycles a run of Mvm3 may count before the model cuts it off.
MaxCycles == 500
MaxStraight == 130

(***************************************************************************)
(* Signed 32-bit and 8-bit integers.  TLC's own integers are 32 bits wide, *)
(* so nothing below computes a value outside MinI32..MaxI32.               *)
(***************************************************************************)
MaxI32 == 2147483647
MinI32 == -MaxI32 - 1

\* a + b reduced modulo 2^32 into MinI32..MaxI32.
AddI32(a, b) ==
    IF a >= 0 /\ b > MaxI32 - a THEN ((a - MaxI32) + (b - MaxI32)) - 2
    ELSE IF a < 0 /\ b < MinI32 - a THEN ((a + MaxI32) + (b + MaxI32)) + 2
    ELSE a + b

\* whether a + b leaves MinI32..MaxI32 (a panic of a build with overflow checks).
AddOverflows(a, b) ==
    \/ a >= 0 /\ b > MaxI32 - a
    \/ a < 0 /\ b < MinI32 - a

\* -b modulo 2^32.
NegI32(b) == IF b = MinI32 THEN MinI32 ELSE 0 - b

SubI32(a, b) == AddI32(a, NegI32(b))

SubOverflows(a, b) ==
    IF b = MinI32 THEN a >= 0 ELSE AddOverflows(a, 0 - b)

\* Rust's integer division for a divisor b > 0: the quotient is truncated toward zero.
TruncDivPos(a, b) ==
    LET q == a \div b
    IN  IF a < 0 /\ q * b # a THEN q + 1 ELSE q

\* Rust's a / b for b # 0 and (a, b) # (MinI32, -1).
TruncDiv(a, b) ==
    IF b > 0 THEN TruncDivPos(a, b)
    ELSE IF b = MinI32 THEN (IF a = MinI32 THEN 1 ELSE 0)
    ELSE 0 - TruncDivPos(a, 0 - b)

\* Rust's a % b for b # 0 and (a, b) # (MinI32, -1): the sign of the dividend.
TruncRem(a, b) ==
    IF b = MinI32 THEN (IF a = MinI32 THEN 0 ELSE a)
    ELSE a - (b * TruncDiv(a, b))

(***************************************************************************)
(* bit.rs                                                                  *)
(***************************************************************************)
\* input & (1 << n) != 0 on an i32 in two's complement.
get_i32_bit(input, n) ==
    IF n = 31 THEN input < 0
    ELSE (((IF input < 0 THEN (input + MaxI32) + 1 ELSE input) \div (2 ^ n)) % 2) = 1

\* input & (1 << n) != 0 on an i8 in two's complement.
get_i8_bit(input, n) ==
    IF n = 7 THEN input < 0
    ELSE (((IF input < 0 THEN input + 128 ELSE input) \div (2 ^ n)) % 2) = 1

\* n | (1 << i) on an i8.
set_i8_bit(n, i) ==
    IF get_i8_bit(n, i) THEN n
    ELSE IF i = 7 THEN n - 128
    ELSE n + (2 ^ i)

\* n | (1 << i) on an i32.
set_i32_bit(n, i) ==
    IF get_i32_bit(n, i) THEN n
    ELSE IF i = 31 THEN (n - MaxI32) - 1
    ELSE n + (2 ^ i)

\* One loop of bytes_from_low_bits: bits i..hi-1 of n go to bits index.. of acc.
\* The test set = set has the byte evaluated at each pass, as the loop does,
\* instead of at the end of the loop.
RECURSIVE lane_from_bits(_, _, _, _, _)
lane_from_bits(n, i, hi, index, acc) ==
    IF i = hi THEN acc
    ELSE LET set == IF get_i32_bit(n, i) THEN set_i8_bit(acc, index) ELSE acc
         IN  IF set = set THEN lane_from_bits(n, i + 1, hi, index + 1, set) ELSE set

\* bytes_from_low_bits with the lanes in big-endian order.
bytes_from_high_bits(n) ==
    << lane_from_bits(n, 24, 32, 0, 0),
       lane_from_bits(n, 16, 24, 0, 0),
       lane_from_bits(n, 8, 16, 0, 0),
       lane_from_bits(n, 0, 8, 0, 0) >>

bytes_from_low_bits(n) ==
    << lane_from_bits(n, 0, 8, 0, 0),
       lane_from_bits(n, 8, 16, 0, 0),
       lane_from_bits(n, 16, 24, 0, 0),
       lane_from_bits(n, 24, 32, 0, 0) >>

\* One loop of i32_from_bytes: bits 0..7 of lane b go to bits index.. of result.
RECURSIVE bits_from_lane(_, _, _, _)
bits_from_lane(b, i, index, result) ==
    IF i = 8 THEN result
    ELSE LET set == IF get_i8_bit(b, i) THEN set_i32_bit(result, index) ELSE result
         IN  IF set = set THEN bits_from_lane(b, i + 1, index + 1, set) ELSE set

i32_from_bytes(i1, i2, i3, i4) ==
    bits_from_lane(i4, 0, 24,
      bits_from_lane(i3, 0, 16,
        bits_from_lane(i2, 0, 8,
          bits_from_lane(i1, 0, 0, 0))))

\* A conversion to i8 that saturates instead of keeping the low 8 bits.
AsI8Saturating(n) == IF n > 127 THEN 127 ELSE IF n < 0 - 128 THEN 0 - 128 ELSE n

\* `n as i8`: the low 8 bits of an i32 as a signed byte.
AsI8(n) ==
    LET u == (IF n < 0 THEN (n + MaxI32) + 1 ELSE n) % 256
    IN  IF u >= 128 THEN u - 256 ELSE u

\* a << s for 0 <= s <= 31: the bits shifted out are lost.
RECURSIVE ShlI32(_, _)
ShlI32(a, s) == IF s = 0 THEN a ELSE ShlI32(AddI32(a, a), s - 1)

\* a >> s for 0 <= s <= 31 on an i32: the sign bit is shifted in.
ShrI32(a, s) == IF s = 31 THEN (IF a < 0 THEN 0 - 1 ELSE 0) ELSE a \div (2 ^ s)

\* The shift amount a build without overflow checks uses: the low five bits.
ShiftMask(s) == s % 32

\* A build with overflow checks panics on a shift amount outside 0..31.
ShiftOverflows(s) == s < 0 \/ s > 31

\* a * b modulo 2^32, by shift and add over the bits of b.
RECURSIVE MulLoop(_, _, _, _)
MulLoop(a, b, i, acc) ==
    IF i = 32 THEN acc
    ELSE MulLoop(AddI32(a, a), b, i + 1, IF get_i32_bit(b, i) THEN AddI32(acc, a) ELSE acc)

MulI32(a, b) == MulLoop(a, b, 0, 0)

\* whether a * b leaves MinI32..MaxI32.
MulOverflows(a, b) ==
    IF a = 0 \/ b = 0 THEN FALSE
    ELSE IF (a = MinI32 /\ b = 0 - 1) \/ (b = MinI32 /\ a = 0 - 1) THEN TRUE
    ELSE IF a = MinI32 \/ b = MinI32 THEN ~(a = 1 \/ b = 1)
    ELSE LET p == MulI32(a, b)
         IN  ~(((p < 0) = ((a < 0) # (b < 0))) /\ p # MinI32 /\ TruncDiv(p, b) = a /\ TruncRem(p, b) = 0)
             /\ ~(p = MinI32 /\ b # 0 - 1 /\ TruncDiv(p, b) = a /\ TruncRem(p, b) = 0)

\* a & b, a | b, a ^ b on i32, bit by bit.
RECURSIVE BitwiseLoop(_, _, _, _, _)
BitwiseLoop(kind, a, b, i, acc) ==
    IF i = 32 THEN acc
    ELSE LET x == get_i32_bit(a, i)
             y == get_i32_bit(b, i)
             z == CASE kind = "and" -> x /\ y
                    [] kind = "or" -> x \/ y
                    [] OTHER -> x # y
         IN  BitwiseLoop(kind, a, b, i + 1, IF z THEN set_i32_bit(acc, i) ELSE acc)

AndI32(a, b) == BitwiseLoop("and", a, b, 0, 0)
OrI32(a, b) == BitwiseLoop("or", a, b, 0, 0)
XorI32(a, b) == BitwiseLoop("xor", a, b, 0, 0)

(***************************************************************************)
(* opcodes.rs: registers, instructions, the machine context.               *)
(***************************************************************************)
\* The registers the model keeps, out of the 32 of enum RegisterType.
RegisterType == {"ZERO", "T0", "T1", "T2"}

InstructionType ==
    {"ADD", "ADDI", "AND", "ANDI", "AUIPC", "BEQ", "BGE", "BGEU", "BLT", "BLTU",
     "BNE", "DIV", "JAL", "JALR", "LUI", "LB", "LH", "LW", "NOP", "MUL", "OR",
     "ORI", "REM", "SB", "SH", "SLL", "SLLI", "SLT", "SLTU", "SLTI", "SRA",
     "SRAI", "SRL", "SRLI", "SUB", "SW", "XOR", "XORI"}

\* An instruction: the opcode and the fields of its struct.  A struct's rs is
\* kept in rs1, a load's or store's offset in imm; fields a struct does not
\* have hold "ZERO", 0 or "".
Ins(op, rd, rs1, rs2, imm, label) ==
    [op |-> op, rd |-> rd, rs1 |-> rs1, rs2 |-> rs2, imm |-> imm, label |-> label]

\* Context::new
NewContext(registers, memory) == [registers |-> registers, memory |-> memory, pc |-> 0]

ZeroRegisters == [r \in RegisterType |-> 0]
ZeroMemory == [a \in 0 .. (MemSize - 1) |-> 0]

\* set_register without its test for ZERO.
set_register_any(ctx, register, value) == [ctx EXCEPT !.registers[register] = value]

set_register(ctx, register, value) ==
    IF register = "ZERO" THEN ctx
    ELSE [ctx EXCEPT !.registers[register] = value]

\* The outcomes of InstructionRunner::run: Ok(next pc) with the context as the
\* step left it, Err(message), or a panic of the Rust runtime.
RunOk(ctx, pc) == [status |-> "ok", ctx |-> ctx, pc |-> pc, error |-> ""]
RunErr(ctx, label) ==
    [status |-> "err", ctx |-> ctx, pc |-> ctx.pc,
     error |-> "label " \o label \o " does not exist"]
RunPanic(ctx) == [status |-> "panic", ctx |-> ctx, pc |-> ctx.pc, error |-> ""]

LessU32(a, b) == IF (a < 0) = (b < 0) THEN a < b ELSE b < 0

\* `<` on two i32 registers, as Slt, Sltu, Blt and Bltu all write it.
LessI32(a, b) == a < b

\* rd <- value, unless the build checks overflow and the operation overflowed.
Arith(ctx, checks, rd, overflowed, value) ==
    IF checks /\ overflowed THEN RunPanic(ctx)
    ELSE RunOk(set_register(ctx, rd, value), ctx.pc + 4)

BranchLooksUpFirst(ctx, labels, taken, label) ==
    IF label \notin DOMAIN labels THEN RunErr(ctx, label)
    ELSE RunOk(ctx, IF taken THEN labels[label] ELSE ctx.pc + 4)

\* A conditional branch that links as a jump does, into t2.
BranchLinks(ctx, labels, taken, label) ==
    IF taken
    THEN IF label \in DOMAIN labels
         THEN RunOk(set_register(ctx, "T2", ctx.pc + 4), labels[label])
         ELSE RunErr(ctx, label)
    ELSE RunOk(set_register(ctx, "T2", ctx.pc + 4), ctx.pc + 4)

\* A conditional branch: the label is looked up only when the condition holds.
Branch(ctx, labels, taken, label) ==
    IF taken
    THEN IF label \in DOMAIN labels THEN RunOk(ctx, labels[label]) ELSE RunErr(ctx, label)
    ELSE RunOk(ctx, ctx.pc + 4)

JalLinksFirst(ctx, labels, rd, label) ==
    IF label \in DOMAIN labels
    THEN RunOk(set_register(ctx, rd, ctx.pc + 4), labels[label])
    ELSE RunErr(set_register(ctx, rd, ctx.pc + 4), label)

\* Jal::run: the label is looked up before the link register is written.
JalStep(ctx, labels, rd, label) ==
    IF label \in DOMAIN labels
    THEN RunOk(set_register(ctx, rd, ctx.pc + 4), labels[label])
    ELSE RunErr(ctx, label)

\* ctx.memory[idx as usize]: an index outside the vector panics.
InMemory(ctx, idx) == idx \in DOMAIN ctx.memory

\* The shift amount used, and whether the build panics on it.
Shift(ctx, checks, rd, amount, left, a) ==
    IF checks /\ ShiftOverflows(amount) THEN RunPanic(ctx)
    ELSE RunOk(set_register(ctx, rd, IF left THEN ShlI32(a, ShiftMask(amount))
                                     ELSE ShrI32(a, ShiftMask(amount))),
               ctx.pc + 4)

\* Load with a half word sign-extended, as RISC-V's LH does.
LoadSignExtended(ctx, checks, ins, n) ==
    LET base == ctx.registers[ins.rs1]
        idx == AddI32(base, ins.imm)
        m == ctx.memory
    IN  IF checks /\ AddOverflows(base, ins.imm) THEN RunPanic(ctx)
        ELSE IF ~InMemory(ctx, idx) \/ ~InMemory(ctx, idx + (n - 1)) THEN RunPanic(ctx)
        ELSE RunOk(set_register(ctx, ins.rs2,
                       CASE n = 1 -> m[idx]
                         [] n = 2 -> i32_from_bytes(m[idx], m[idx + 1],
                                                    IF m[idx + 1] < 0 THEN 0 - 1 ELSE 0,
                                                    IF m[idx + 1] < 0 THEN 0 - 1 ELSE 0)
                         [] OTHER -> i32_from_bytes(m[idx], m[idx + 1], m[idx + 2], m[idx + 3])),
                   ctx.pc + 4)

\* Lb, Lh, Lw: the bytes are read one by one, the first bad index panics.
Load(ctx, checks, ins, n) ==
    LET base == ctx.registers[ins.rs1]
        idx == AddI32(base, ins.imm)
        m == ctx.memory
    IN  IF checks /\ AddOverflows(base, ins.imm) THEN RunPanic(ctx)
        ELSE IF ~InMemory(ctx, idx) \/ ~InMemory(ctx, idx + (n - 1)) THEN RunPanic(ctx)
        ELSE RunOk(set_register(ctx, ins.rs2,
                       CASE n = 1 -> m[idx]
                         [] n = 2 -> i32_from_bytes(m[idx], m[idx + 1], 0, 0)
                         [] OTHER -> i32_from_bytes(m[idx], m[idx + 1], m[idx + 2], m[idx + 3])),
                   ctx.pc + 4)

\* The bytes of bytes[1..n] written one by one from idx on; the first bad index
\* panics and leaves the bytes written before it.
RECURSIVE StoreBytes(_, _, _, _)
StoreBytes(ctx, idx, bytes, k) ==
    IF k > Len(bytes) THEN RunOk(ctx, ctx.pc + 4)
    ELSE IF ~InMemory(ctx, idx) THEN RunPanic(ctx)
    ELSE StoreBytes([ctx EXCEPT !.memory[idx] = bytes[k]], idx + 1, bytes, k + 1)

StoreAllLanes(ctx, checks, ins, n) ==
    IF checks /\ AddOverflows(ctx.registers[ins.rs1], ins.imm) THEN RunPanic(ctx)
    ELSE StoreBytes(ctx, AddI32(ctx.registers[ins.rs1], ins.imm),
                    bytes_from_low_bits(ctx.registers[ins.rs2]), 1)

\* Sb, Sh, Sw
Store(ctx, checks, ins, n) ==
    LET base == ctx.registers[ins.rs1]
        idx == AddI32(base, ins.imm)
        v == ctx.registers[ins.rs2]
        lanes == bytes_from_low_bits(v)
    IN  IF checks /\ AddOverflows(base, ins.imm) THEN RunPanic(ctx)
        ELSE StoreBytes(ctx, idx,
                 CASE n = 1 -> << AsI8(v) >>
                   [] n = 2 -> << lanes[1], lanes[2] >>
                   [] OTHER -> lanes,
                 1)

\* InstructionRunner::run of every opcode: the context after the step and the
\* next pc it returns.  The step never assigns ctx.pc.  checks: whether the
\* build panics on arithmetic overflow (a debug build) or wraps (a release
\* build).
run(ins, ctx, labels, checks) ==
    LET r == ctx.registers
        a == r[ins.rs1]
        b == r[ins.rs2]
        imm == ins.imm
        op == ins.op
    IN  CASE op = "ADD" -> Arith(ctx, checks, ins.rd, AddOverflows(a, b), AddI32(a, b))
          [] op = "ADDI" -> Arith(ctx, checks, ins.rd, AddOverflows(a, imm), AddI32(a, imm))
          [] op = "AND" -> Arith(ctx, checks, ins.rd, FALSE, AndI32(a, b))
          [] op = "ANDI" -> Arith(ctx, checks, ins.rd, FALSE, AndI32(a, imm))
          [] op = "AUIPC" ->
                Arith(ctx, checks, ins.rd, AddOverflows(ctx.pc, ShlI32(imm, 12)),
                      AddI32(ctx.pc, ShlI32(imm, 12)))
          [] op = "BEQ" -> Branch(ctx, labels, a = b, ins.label)
          [] op = "BGE" -> Branch(ctx, labels, a >= b, ins.label)
          [] op = "BGEU" -> Branch(ctx, labels, a >= b, ins.label)
          [] op = "BLT" -> Branch(ctx, labels, LessI32(a, b), ins.label)
          [] op = "BLTU" -> Branch(ctx, labels, LessI32(a, b), ins.label)
          [] op = "BNE" -> Branch(ctx, labels, a # b, ins.label)
          [] op = "DIV" ->
                IF b = 0 \/ (a = MinI32 /\ b = 0 - 1) THEN RunPanic(ctx)
                ELSE Arith(ctx, checks, ins.rd, FALSE, TruncDiv(a, b))
          [] op = "JAL" -> JalStep(ctx, labels, ins.rd, ins.label)
          [] op = "JALR" ->
                LET linked == set_register(ctx, ins.rd, ctx.pc + 4)
                    base == linked.registers[ins.rs1]
                IN  IF checks /\ AddOverflows(base, imm) THEN RunPanic(linked)
                    ELSE RunOk(linked, AddI32(base, imm))
          [] op = "LUI" -> Arith(ctx, checks, ins.rd, FALSE, ShlI32(imm, 12))
          [] op = "LB" -> Load(ctx, checks, ins, 1)
          [] op = "LH" -> Load(ctx, checks, ins, 2)
          [] op = "LW" -> Load(ctx, checks, ins, 4)
          [] op = "NOP" -> RunOk(ctx, ctx.pc + 4)
          [] op = "MUL" -> Arith(ctx, checks, ins.rd, MulOverflows(a, b), MulI32(a, b))
          [] op = "OR" -> Arith(ctx, checks, ins.rd, FALSE, OrI32(a, b))
          [] op = "ORI" -> Arith(ctx, checks, ins.rd, FALSE, OrI32(a, imm))
          [] op = "REM" ->
                IF b = 0 \/ (a = MinI32 /\ b = 0 - 1) THEN RunPanic(ctx)
                ELSE Arith(ctx, checks, ins.rd, FALSE, TruncRem(a, b))
          [] op = "SB" -> Store(ctx, checks, ins, 1)
          [] op = "SH" -> Store(ctx, checks, ins, 2)
          [] op = "SLL" -> Shift(ctx, checks, ins.rd, b, TRUE, a)
          [] op = "SLLI" -> Shift(ctx, checks, ins.rd, imm, TRUE, a)
          [] op = "SLT" -> Arith(ctx, checks, ins.rd, FALSE, IF LessI32(a, b) THEN 1 ELSE 0)
          [] op = "SLTU" -> Arith(ctx, checks, ins.rd, FALSE, IF LessI32(a, b) THEN 1 ELSE 0)
          [] op = "SLTI" -> Arith(ctx, checks, ins.rd, FALSE, IF a < imm THEN 1 ELSE 0)
          [] op = "SRA" -> Shift(ctx, checks, ins.rd, b, FALSE, a)
          [] op = "SRAI" -> Shift(ctx, checks, ins.rd, imm, FALSE, a)
          [] op = "SRL" -> Shift(ctx, checks, ins.rd, b, FALSE, a)
          [] op = "SRLI" -> Shift(ctx, checks, ins.rd, imm, FALSE, a)
          [] op = "SUB" -> Arith(ctx, checks, ins.rd, SubOverflows(a, b), SubI32(a, b))
          [] op = "SW" -> Store(ctx, checks, ins, 4)
          [] op = "XOR" -> Arith(ctx, checks, ins.rd, FALSE, XorI32(a, b))
          [] op = "XORI" -> Arith(ctx, checks, ins.rd, FALSE, XorI32(a, imm))

cycles_per_instruction_one(instruction_type) == 1

cycles_per_instruction(instruction_type) ==
    IF instruction_type \in {"LB", "LH", "LW", "SB", "SH", "SW"} THEN 50 ELSE 1

write_back(instruction_type) == instruction_type \notin {"SB", "SW", "SH"}

jump_jal_only(instruction_type) == instruction_type = "JAL"

jump(instruction_type) == instruction_type \in {"JAL", "JALR"}

conditional_branching_never(instruction_type) == FALSE

conditional_branching(instruction_type) ==
    instruction_type \in {"BEQ", "BNE", "BLT", "BGE", "BGEU"}

(***************************************************************************)
(* Programs and initial states the model draws from.                       *)
(***************************************************************************)
Application(instructions, labels) == [instructions |-> instructions, labels |-> labels]

NoLabels == << >>

Addi(rd, rs, imm) == Ins("ADDI", rd, rs, "ZERO", imm, "")
Add(rd, rs1, rs2) == Ins("ADD", rd, rs1, rs2, 0, "")
Jal(rd, label) == Ins("JAL", rd, "ZERO", "ZERO", 0, label)
Jalr(rd, rs, imm) == Ins("JALR", rd, rs, "ZERO", imm, "")
Beq(rs1, rs2, label) == Ins("BEQ", "ZERO", rs1, rs2, 0, label)
Bltu(rs1, rs2, label) == Ins("BLTU", "ZERO", rs1, rs2, 0, label)
Sw(rs2, offset, rs1) == Ins("SW", "ZERO", rs1, rs2, offset, "")
Lw(rs2, offset, rs1) == Ins("LW", "ZERO", rs1, rs2, offset, "")
Sh(rs2, offset, rs1) == Ins("SH", "ZERO", rs1, rs2, offset, "")
Lh(rs2, offset, rs1) == Ins("LH", "ZERO", rs1, rs2, offset, "")
Sb(rs2, offset, rs1) == Ins("SB", "ZERO", rs1, rs2, offset, "")
Lb(rs2, offset, rs1) == Ins("LB", "ZERO", rs1, rs2, offset, "")
Nop == Ins("NOP", "ZERO", "ZERO", "ZERO", 0, "")

\* The instructions short programs are built from.
Pool ==
    { Addi("T0", "ZERO", 1),
      Add("T1", "T0", "T0"),
      Addi("ZERO", "T0", 1),
      Jal("T2", "foo"),
      Beq("T0", "T1", "foo"),
      Bltu("T0", "T1", "foo"),
      Sw("T0", 0, "ZERO"),
      Lw("T1", 0, "ZERO") }

RECURSIVE SeqsUpTo(_, _)
SeqsUpTo(S, n) ==
    IF n = 0 THEN { << >> }
    ELSE LET shorter == SeqsUpTo(S, n - 1)
         IN  shorter \cup { Append(q, x) : q \in { t \in shorter : Len(t) = n - 1 }, x \in S }

\* Every program of at most MaxLen pool instructions, the label foo placed
\* before any instruction or after the last one.
PoolPrograms ==
    { Application(q, "foo" :> (4 * k)) : q \in SeqsUpTo(Pool, MaxLen), k \in 0 .. MaxLen }

\* One program per opcode: the instruction alone, foo after it.
OpcodePrograms ==
    { Application(<< Ins(t, "T2", "T0", "T1", 1, "foo") >>, "foo" :> 4) : t \in InstructionType }

\* The programs of the tests of mvm3.rs.
TestSimple == Application(<< Addi("T0", "ZERO", 1) >>, NoLabels)
TestMultiple ==
    Application(<< Addi("T0", "ZERO", 1), Addi("T1", "ZERO", 2), Addi("T2", "ZERO", 3) >>, NoLabels)
TestJal ==
    Application(<< Addi("T0", "ZERO", 1), Jal("T2", "foo"), Addi("T1", "ZERO", 2),
                   Addi("T2", "ZERO", 3) >>, "foo" :> 12)
TestBranchTrue ==
    Application(<< Addi("T0", "ZERO", 1), Addi("T1", "ZERO", 1), Beq("T0", "T1", "foo"),
                   Addi("T1", "ZERO", 2), Addi("T2", "ZERO", 3) >>, "foo" :> 16)
TestBranchFalse ==
    Application(<< Addi("T0", "ZERO", 0), Addi("T1", "ZERO", 1), Beq("T0", "T1", "foo"),
                   Addi("T1", "ZERO", 2), Addi("T2", "ZERO", 3) >>, "foo" :> 16)

TestPrograms == { TestSimple, TestMultiple, TestJal, TestBranchTrue, TestBranchFalse }

\* Programs around a jump in the shape of test_pipelining_jal: instructions
\* before it (none, one that writes the register jalr reads, a load of it, a
\* store), the jump (jal to foo, or jalr to the same address through t0),
\* the instructions it jumps over, and the instruction at foo.
JumpPres ==
    { << >>, << Addi("T0", "ZERO", 1) >>, << Lw("T0", 0, "ZERO") >>, << Sw("T1", 0, "ZERO") >> }

JumpFalls ==
    { << Addi("T1", "ZERO", 2) >>,
      << Sw("T1", 2, "ZERO") >>,
      << Sw("T1", 2, "ZERO"), Addi("T1", "ZERO", 2) >>,
      << Addi("T1", "ZERO", 2), Sw("T1", 2, "ZERO") >> }

JumpTails == { << Addi("T1", "ZERO", 3) >>, << Add("T1", "T2", "T2") >> }

JumpOver(pre, kind, fall, tail) ==
    LET target == 4 * (Len(pre) + 1 + Len(fall))
    IN  Application(pre \o << IF kind = "JAL" THEN Jal("T2", "foo")
                                               ELSE Jalr("T2", "T0", target) >>
                        \o fall \o tail,
                    "foo" :> target)

JumpPrograms ==
    { JumpOver(pre, kind, fall, tail) :
        pre \in JumpPres, kind \in {"JAL", "JALR"}, fall \in JumpFalls, tail \in JumpTails }

\* Programs around a conditional branch in the shape of the two
\* test_pipelining_conditional_branching tests: t0 and t1 are set, compared
\* by a branch of each opcode, and foo is past the instruction the branch
\* skips when taken.
BranchOperands == { << 1, 1 >>, << 0, 1 >>, << 1, 0 >>, << 0 - 1, 1 >> }

BranchSkipped == { Addi("T1", "ZERO", 2), Sw("T0", 1, "ZERO") }

BranchOver(op, operands, skipped) ==
    Application(<< Addi("T0", "ZERO", operands[1]), Addi("T1", "ZERO", operands[2]),
                   Ins(op, "ZERO", "T0", "T1", 0, "foo"), skipped,
                   Addi("T2", "ZERO", 3) >>,
                "foo" :> 16)

BranchPrograms ==
    { BranchOver(op, operands, skipped) :
        op \in {"BEQ", "BNE", "BLT", "BLTU", "BGE", "BGEU"},
        operands \in BranchOperands, skipped \in BranchSkipped }

\* Programs with a jal or a branch to bar, a label that no line defines:
\* alone, after an addi, after an addi and a store.
ErrorPres ==
    { << >>, << Addi("T0", "ZERO", 1) >>, << Addi("T0", "ZERO", 2), Sw("T0", 1, "ZERO") >> }

ErrorPrograms ==
    { Application(pre \o << Ins(op, "T2", "T0", "T1", 0, "bar"), Addi("T1", "ZERO", 3) >>,
                  "foo" :> 0) :
        pre \in ErrorPres, op \in {"JAL", "BEQ", "BNE", "BLT", "BLTU", "BGE", "BGEU"} }

\* Programs in the shape of test_pipelining_multiple with a data hazard: two
\* instructions in a row that write t0 (an addi or a load, then an addi) and
\* an instruction that reads t0.
HazardFirsts == { Addi("T0", "ZERO", 1), Lw("T0", 0, "ZERO") }

HazardReaders == { Add("T1", "T0", "T0"), Sw("T0", 0, "ZERO"), Addi("T0", "T0", 1) }

HazardPrograms ==
    { Application(<< first, Addi("T0", "ZERO", 2), reader >>, NoLabels) :
        first \in HazardFirsts, reader \in HazardReaders }

\* Programs with two stores on overlapping bytes: 258 (lanes 2, 1, 0, 0) is
\* stored at 1 with one width, then -1 at 0 or 2 with another.
StorePrograms ==
    { Application(<< Addi("T0", "ZERO", 258), Ins(first, "ZERO", "ZERO", "T0", 1, ""),
                     Addi("T1", "ZERO", 0 - 1), Ins(second, "ZERO", "ZERO", "T1", offset, "") >>,
                  NoLabels) :
        first \in {"SB", "SH", "SW"}, second \in {"SB", "SH", "SW"}, offset \in {0, 2} }

\* Programs long enough for the fetch unit to find its bus full: a load or
\* a store held in execute with six instructions behind it.
BackPressurePrograms ==
    { Application(<< first, Addi("T1", "ZERO", 1), Addi("T2", "ZERO", 2), Addi("T1", "ZERO", 3),
                     Addi("T2", "ZERO", 4), Addi("T1", "ZERO", 5), Addi("T2", "ZERO", 6) >>,
                  NoLabels) :
        first \in { Lw("T0", 0, "ZERO"), Sw("T0", 0, "ZERO") } }

Programs == { p \in PoolPrograms : p.labels["foo"] <= 4 * Len(p.instructions) }
              \cup OpcodePrograms \cup TestPrograms \cup JumpPrograms \cup BranchPrograms
              \cup ErrorPrograms \cup HazardPrograms \cup StorePrograms
              \cup BackPressurePrograms

\* Straight-line programs of single-cycle instructions that read no register
\* but zero: the k-th writes the k-th of t0, t1, t2 in turn, all with addi or
\* with the opcodes of StraightOps in turn.
StraightRegisters == << "T0", "T1", "T2" >>

StraightOps == << "ADDI", "ADD", "XORI", "SLT", "OR", "SLLI", "SUB", "LUI" >>

Straight(k, ops) ==
    Application([i \in 1 .. k |->
                    Ins(ops[((i - 1) % Len(ops)) + 1],
                        StraightRegisters[((i - 1) % Len(StraightRegisters)) + 1],
                        "ZERO", "ZERO", i, "")],
                NoLabels)

StraightPrograms ==
    { Straight(k, ops) : k \in 1 .. MaxStraight, ops \in {<< "ADDI" >>, StraightOps} }

\* The register files a caller sets before run (the tests' init_registers).
InitRegisters ==
    { ZeroRegisters, [ZeroRegisters EXCEPT !["T0"] = 1, !["T1"] = 2] }

(***************************************************************************)
(* The state.                                                              *)
(***************************************************************************)
VARIABLES
    application,    \* the program under run: instructions and labels
    checks,         \* whether the build panics on arithmetic overflow
    phase,          \* the machine running: "ref", "m1", "m2", "m3", then "done"
    ref,            \* Runner of opcodes.rs: ctx, status, steps
    m1,             \* Runner of mvm1.rs: ctx, cycles, status, steps, executed
    m2,             \* Mvm2: ctx, l1_min, l1_max, cycles, status, steps, fetched
    m3              \* Mvm3: ctx, scoreboard, the units, the buses, cycles, status

vars == << application, checks, phase, ref, m1, m2, m3 >>

Instructions == application.instructions
Labels == application.labels
N == Len(Instructions)

\* A run that has used up its steps is cut off by the model: a straight-line
\* program longer than MaxSteps is given the steps to run to its end.
StepBound == IF N >= MaxSteps THEN N + 1 ELSE MaxSteps

Bounded(status, steps) == IF status = "running" /\ steps >= StepBound THEN "cut" ELSE status

Stopped(m) == m.status # "running"

(***************************************************************************)
(* opcodes.rs, Runner::run: the reference interpreter.                     *)
(***************************************************************************)
RunnerIterate(m) ==
    IF ~(TruncDiv(m.ctx.pc, 4) < N) THEN [m EXCEPT !.status = "ok"]
    ELSE IF TruncDiv(m.ctx.pc, 4) < 0 THEN [m EXCEPT !.status = "panic"]
    ELSE LET r == run(Instructions[TruncDiv(m.ctx.pc, 4) + 1], m.ctx, Labels, checks)
         IN  IF r.status = "ok"
             THEN [m EXCEPT !.ctx = [r.ctx EXCEPT !.pc = r.pc], !.steps = @ + 1,
                            !.status = Bounded("running", m.steps + 1)]
             ELSE [m EXCEPT !.ctx = r.ctx, !.status = r.status, !.error = r.error]

(***************************************************************************)
(* mvm1.rs                                                                 *)
(***************************************************************************)
\* Runner::fetch_instruction: the index fetched and its cycles.
m1_fetch_instruction(ctx) == << TruncDiv(ctx.pc, 4), 50 >>

\* Runner::decode's cycles.
m1_decode == 1

\* The cycles execute_write returns for an instruction type.
\* execute_write with the cost of the common case for every opcode.
execute_write_cycles_flat(instruction_type) == 2

execute_write_cycles(instruction_type) ==
    CASE instruction_type \in {"LB", "LH", "LW"} -> 51
      [] instruction_type \in {"SB", "SH", "SW"} -> 50
      [] OTHER -> 2

\* Runner::execute_write: the step's result is only tested for an error, the
\* next pc it returns is dropped.
execute_write(ctx, ins) ==
    LET r == run(ins, ctx, Labels, checks)
    IN  [status |-> r.status, ctx |-> r.ctx, error |-> r.error,
         cycles |-> execute_write_cycles(ins.op)]

\* One pass of the while loop of Runner::run, or its exit.
M1Iterate(m) ==
    IF ~(TruncDiv(m.ctx.pc, 4) < N) THEN [m EXCEPT !.status = "ok"]
    ELSE IF TruncDiv(m.ctx.pc, 4) < 0 THEN [m EXCEPT !.status = "panic"]
    ELSE LET fetch == m1_fetch_instruction(m.ctx)
             ins == Instructions[fetch[1] + 1]
             ew == execute_write(m.ctx, ins)
         IN  IF ew.status = "ok"
             THEN [m EXCEPT !.ctx = ew.ctx,
                            !.cycles = @ + fetch[2] + m1_decode + ew.cycles,
                            !.steps = @ + 1,
                            !.executed = Append(@, ins.op),
                            !.status = Bounded("running", m.steps + 1)]
             ELSE [m EXCEPT !.ctx = ew.ctx,
                            !.cycles = @ + fetch[2] + m1_decode,
                            !.status = ew.status, !.error = ew.error]

(***************************************************************************)
(* mvm2.rs                                                                 *)
(***************************************************************************)
\* fetch_instruction with the lower end of the line excluded.
fetch_instruction_exclusive(pc, l1_min, l1_max) ==
    IF pc > l1_min /\ pc <= l1_max
    THEN [idx |-> TruncDiv(pc, 4), cycles |-> 1, l1_min |-> l1_min, l1_max |-> l1_max]
    ELSE [idx |-> TruncDiv(pc, 4), cycles |-> 50, l1_min |-> pc, l1_max |-> pc + 64]

\* fetch_instruction with a miss that costs the memory access and the cache access.
fetch_instruction_slow_miss(pc, l1_min, l1_max) ==
    IF pc >= l1_min /\ pc <= l1_max
    THEN [idx |-> TruncDiv(pc, 4), cycles |-> 1, l1_min |-> l1_min, l1_max |-> l1_max]
    ELSE [idx |-> TruncDiv(pc, 4), cycles |-> 51, l1_min |-> pc, l1_max |-> pc + 64]

\* Mvm2::fetch_instruction: the index, the cycles and the cache line after.
fetch_instruction(pc, l1_min, l1_max) ==
    IF pc >= l1_min /\ pc <= l1_max
    THEN [idx |-> TruncDiv(pc, 4), cycles |-> 1, l1_min |-> l1_min, l1_max |-> l1_max]
    ELSE [idx |-> TruncDiv(pc, 4), cycles |-> 50, l1_min |-> pc, l1_max |-> pc + 64]

\* One pass of the while loop of Mvm2::run, or its exit.
M2Iterate(m) ==
    IF ~(TruncDiv(m.ctx.pc, 4) < N) THEN [m EXCEPT !.status = "ok"]
    ELSE LET fetch == fetch_instruction(m.ctx.pc, m.l1_min, m.l1_max)
             fetched == [pc |-> m.ctx.pc, l1_min |-> m.l1_min, l1_max |-> m.l1_max,
                         cycles |-> fetch.cycles]
             m_f == [m EXCEPT !.l1_min = fetch.l1_min, !.l1_max = fetch.l1_max,
                              !.cycles = @ + fetch.cycles, !.fetched = fetched,
                              !.fetches = @ + 1]
         IN  IF fetch.idx < 0 THEN [m_f EXCEPT !.status = "panic"]
             ELSE LET ins == Instructions[fetch.idx + 1]
                      ew == execute_write(m.ctx, ins)
                  IN  IF ew.status = "ok"
                      THEN [m_f EXCEPT !.ctx = ew.ctx,
                                       !.cycles = @ + m1_decode + ew.cycles,
                                       !.steps = @ + 1,
                                       !.status = Bounded("running", m.steps + 1)]
                      ELSE [m_f EXCEPT !.ctx = ew.ctx,
                                       !.cycles = @ + m1_decode,
                                       !.status = ew.status, !.error = ew.error]

(***************************************************************************)
(* mvm3.rs: the buses.                                                     *)
(***************************************************************************)
\* The capacity every bus is built with (Bus::new(1)).
BusMax == 1

\* Bus::new.  entry and buffer hold the elements of the vectors added.
NewBus == [entry |-> << >>, buffer |-> << >>, queue |-> << >>]

\* Bus::flush
bus_flush(bus) == NewBus

\* Bus::add
bus_add(bus, t) == [bus EXCEPT !.entry = Append(@, t)]

\* Bus::get: the bus after the head of the queue is removed.
bus_get(bus) == [bus EXCEPT !.queue = Tail(@)]

\* Bus::peek, and the element Bus::get returns.
bus_peek(bus) == Head(bus.queue)

is_full_never(bus) == FALSE

\* Bus::is_full
is_full(bus) == Len(bus.queue) = BusMax \/ Len(bus.entry) = BusMax

bus_is_empty(bus) == Len(bus.queue) = 0 /\ Len(bus.buffer) = 0 /\ Len(bus.entry) = 0

contains_element_in_buffer(bus) == Len(bus.buffer) # 0

contains_element_in_queue(bus) == Len(bus.queue) # 0

contains_element_in_entry(bus) == Len(bus.entry) # 0

connect_through(bus) ==
    IF Len(bus.queue) = BusMax THEN bus
    ELSE [entry |-> << >>, buffer |-> << >>, queue |-> bus.queue \o bus.buffer \o bus.entry]

connect_clearing(bus) ==
    IF Len(bus.queue) = BusMax THEN [bus EXCEPT !.buffer = << >>]
    ELSE [entry |-> << >>, buffer |-> bus.entry, queue |-> bus.queue \o bus.buffer]

\* Bus::connect
connect(bus) ==
    IF Len(bus.queue) = BusMax THEN bus
    ELSE [entry |-> << >>, buffer |-> bus.entry, queue |-> bus.queue \o bus.buffer]

(***************************************************************************)
(* The part of the instruction set mvm3.rs calls and opcodes.rs does not   *)
(* hold: the registers an instruction reads and writes, a step that        *)
(* returns an Execution (next pc, target register, value) instead of       *)
(* writing the register, and the scoreboard kept in the context.           *)
(***************************************************************************)
\* InstructionRunner::read_registers
read_registers(ins) ==
    CASE ins.op \in {"ADD", "SUB", "AND", "OR", "XOR", "MUL", "DIV", "REM", "SLT", "SLTU",
                     "SLL", "SRL", "SRA", "BEQ", "BNE", "BLT", "BLTU", "BGE", "BGEU",
                     "SB", "SH", "SW"} -> {ins.rs1, ins.rs2}
      [] ins.op \in {"ADDI", "ANDI", "ORI", "XORI", "SLTI", "SLLI", "SRAI", "SRLI", "JALR",
                     "LB", "LH", "LW"} -> {ins.rs1}
      [] OTHER -> {}

\* InstructionRunner::write_registers
write_registers(ins) ==
    CASE ins.op \in {"LB", "LH", "LW"} -> << ins.rs2 >>
      [] ins.op \in {"SB", "SH", "SW", "BEQ", "BNE", "BLT", "BLTU", "BGE", "BGEU", "NOP"} -> << >>
      [] OTHER -> << ins.rd >>

\* The Execution of a step that Context-level run has made: its next pc and the
\* value it left in the target register.
Execution(r, register) ==
    [pc |-> r.pc, register |-> register, value |-> r.ctx.registers[register]]

\* The outcome of a step as mvm3.rs uses it: memory is written by the step, the
\* register write is carried in the Execution and left to write-back.
ExecutionOf(r, ctx, w) ==
    [status |-> r.status, error |-> r.error,
     ctx |-> [ctx EXCEPT !.memory = r.ctx.memory],
     execution |-> Execution(r, IF Len(w) = 0 THEN "ZERO" ELSE w[1])]

\* InstructionRunner::run of mvm3.rs
run_execution(ins, ctx, labels, chk) ==
    ExecutionOf(run(ins, ctx, labels, chk), ctx, write_registers(ins))

\* Context::write: the register write of an Execution; ZERO is never written.
ctx_write(ctx, execution) == set_register(ctx, execution.register, execution.value)

\* The scoreboard: how many executed, not yet retired instructions write each register.
NoWriteRegisters == [r \in RegisterType |-> 0]

Count(w, r) == Cardinality({k \in DOMAIN w : w[k] = r})

contain_written_registers_never(scoreboard, registers) == FALSE

\* Context::contain_written_registers
contain_written_registers(scoreboard, registers) == \E r \in registers : scoreboard[r] > 0

\* Context::add_write_registers
add_write_registers(scoreboard, w) == [r \in RegisterType |-> scoreboard[r] + Count(w, r)]

delete_write_registers_all(scoreboard, w) ==
    [r \in RegisterType |-> IF Count(w, r) > 0 THEN 0 ELSE scoreboard[r]]

\* Context::delete_write_registers
delete_write_registers(scoreboard, w) ==
    [r \in RegisterType |-> IF scoreboard[r] > Count(w, r) THEN scoreboard[r] - Count(w, r) ELSE 0]

(***************************************************************************)
(* mvm3.rs: the units.  Each operator takes the machine and returns it     *)
(* after the unit's cycle.                                                 *)
(***************************************************************************)
CYCLES_L1_ACCESS == 1
CYCLES_MEMORY_ACCESS == 50 + CYCLES_L1_ACCESS
L1I_CACHE_LINE == 64 * 8

present_exclusive(boundary, pc) == pc >= boundary[1] /\ pc < boundary[2]

\* L1I::present
present(boundary, pc) == pc >= boundary[1] /\ pc <= boundary[2]

\* L1I::fetch
l1i_fetch(pc) == << pc, pc + L1I_CACHE_LINE >>

\* FetchUnit::new
NewFetchUnit ==
    [pc |-> 0, l1i |-> << 0 - 1, 0 - 1 >>, remaining_cycles |-> 0, complete |-> FALSE,
     processing |-> FALSE]

\* FetchUnit::cycle
FetchUnitCycle(s) ==
    LET f == s.fetch_unit
    IN  IF f.complete THEN s
        ELSE LET started ==
                     IF f.processing THEN f
                     ELSE IF present(f.l1i, f.pc)
                          THEN [f EXCEPT !.processing = TRUE, !.remaining_cycles = CYCLES_L1_ACCESS]
                          ELSE [f EXCEPT !.processing = TRUE,
                                         !.remaining_cycles = CYCLES_MEMORY_ACCESS,
                                         !.l1i = l1i_fetch(f.pc)]
                 remaining == started.remaining_cycles - 1
             IN  IF remaining # 0
                 THEN [s EXCEPT !.fetch_unit = [started EXCEPT !.remaining_cycles = remaining]]
                 ELSE IF is_full(s.decode_bus)
                 THEN [s EXCEPT !.fetch_unit = [started EXCEPT !.remaining_cycles = 1]]
                 ELSE [s EXCEPT !.fetch_unit =
                                    [started EXCEPT !.remaining_cycles = remaining,
                                                    !.processing = FALSE,
                                                    !.pc = f.pc + 4,
                                                    !.complete = TruncDiv(f.pc + 4, 4) >= N],
                                !.decode_bus = bus_add(@, TruncDiv(f.pc, 4)),
                                !.fetched = Append(@, TruncDiv(f.pc, 4))]

\* FetchUnit::flush
FetchUnitFlush(f, pc) == [f EXCEPT !.processing = FALSE, !.complete = FALSE, !.pc = pc]

\* DecodeUnit::cycle: the index taken from the bus is looked up in the program,
\* which panics when it is not an index of it.
DecodeUnitCycle(s) ==
    IF ~contains_element_in_queue(s.decode_bus) \/ is_full(s.execute_bus) THEN s
    ELSE LET idx == bus_peek(s.decode_bus)
         IN  IF idx < 0 \/ idx >= N
             THEN [s EXCEPT !.decode_bus = bus_get(@), !.status = "panic"]
             ELSE [s EXCEPT !.decode_bus = bus_get(@), !.execute_bus = bus_add(@, idx),
                            !.decoded = Append(@, idx)]

\* BranchUnit::new
NewBranchUnit == [condition_branching_expected |-> [some |-> FALSE, value |-> 0], jump |-> FALSE]

\* BranchUnit::assert
BranchUnitAssert(s) ==
    IF contains_element_in_queue(s.execute_bus)
    THEN LET instruction_type == Instructions[bus_peek(s.execute_bus) + 1].op
         IN  IF jump(instruction_type) THEN [s EXCEPT !.branch_unit.jump = TRUE]
             ELSE IF conditional_branching(instruction_type)
             THEN [s EXCEPT !.branch_unit.condition_branching_expected =
                                [some |-> TRUE, value |-> s.ctx.pc + 4]]
             ELSE s
    ELSE s

\* ExecuteUnit::new
NewExecuteUnit == [processing |-> FALSE, remaining_cycles |-> 0, runner |-> 0 - 1]

\* The end of ExecuteUnit::cycle: r is what run returned for the instruction
\* at index runner; an error leaves the loop of Mvm3::run.
Executed(held, r, ins, runner) ==
    IF r.status # "ok"
    THEN [held EXCEPT !.ctx = r.ctx, !.status = r.status, !.error = r.error]
    ELSE [held EXCEPT
             !.ctx = [r.ctx EXCEPT !.pc = r.execution.pc],
             !.write_bus = bus_add(@, [execution |-> r.execution,
                                       instruction_type |-> ins.op,
                                       write_registers |-> write_registers(ins),
                                       idx |-> runner]),
             !.scoreboard = add_write_registers(@, write_registers(ins)),
             !.execute_unit = NewExecuteUnit,
             !.steps = @ + 1,
             !.executed = Append(@, runner),
             !.from = Append(@, held.ctx.pc),
             !.to = Append(@, r.execution.pc),
             !.executed_at = Append(@, held.cycles),
             !.results = Append(@, r.execution),
             !.stepped = TRUE]

\* ExecuteUnit::cycle once the instruction at index runner is held, remaining
\* being its remaining cycles after this one.
Execute(s, held, ins, runner, remaining) ==
    IF remaining # 0 THEN held
    ELSE IF is_full(s.write_bus)
    THEN [held EXCEPT !.execute_unit.remaining_cycles = 1,
                      !.stalled_at = Append(@, held.cycles)]
    ELSE IF contain_written_registers(s.scoreboard, read_registers(ins))
    THEN [held EXCEPT !.execute_unit.remaining_cycles = 1,
                      !.stalled_at = Append(@, held.cycles)]
    ELSE Executed(held, run_execution(ins, s.ctx, Labels, checks), ins, runner)

\* The instruction ExecuteUnit::cycle works on: the one it holds, or else the
\* head of its bus.  runner is the index of the instruction, -1 for None.
Hold(s, in_bus, runner, remaining) ==
    Execute(s,
            [s EXCEPT !.execute_bus = in_bus,
                      !.execute_unit = [processing |-> TRUE, remaining_cycles |-> remaining,
                                        runner |-> runner]],
            Instructions[runner + 1], runner, remaining)

\* ExecuteUnit::cycle
ExecuteUnitCycle(s) ==
    IF s.execute_unit.processing
    THEN Hold(s, s.execute_bus, s.execute_unit.runner, s.execute_unit.remaining_cycles - 1)
    ELSE IF ~contains_element_in_queue(s.execute_bus) THEN s
    ELSE Hold([s EXCEPT !.popped = Append(@, bus_peek(s.execute_bus)),
                        !.popped_at = Append(@, s.cycles)],
              bus_get(s.execute_bus), bus_peek(s.execute_bus),
              cycles_per_instruction(Instructions[bus_peek(s.execute_bus) + 1].op) - 1)

\* WriteUnit::cycle without the removal from the scoreboard.
WriteUnitCycleKeep(s) ==
    IF ~contains_element_in_queue(s.write_bus) THEN s
    ELSE LET execution == bus_peek(s.write_bus)
             got == [s EXCEPT !.write_bus = bus_get(@), !.retired = Append(@, execution.idx)]
         IN  IF write_back(execution.instruction_type)
             THEN [got EXCEPT !.ctx = ctx_write(@, execution.execution)]
             ELSE got

\* WriteUnit::cycle
WriteUnitCycle(s) ==
    IF ~contains_element_in_queue(s.write_bus) THEN s
    ELSE LET execution == bus_peek(s.write_bus)
             got == [s EXCEPT !.write_bus = bus_get(@), !.retired = Append(@, execution.idx)]
         IN  IF write_back(execution.instruction_type)
             THEN [got EXCEPT !.ctx = ctx_write(@, execution.execution),
                              !.scoreboard = delete_write_registers(@, execution.write_registers)]
             ELSE got

\* BranchUnit::pipeline_to_be_flushed: the answer is left in s.flush.
PipelineToBeFlushed(s) ==
    IF ~contains_element_in_entry(s.write_bus) THEN [s EXCEPT !.flush = FALSE]
    ELSE LET expected == s.branch_unit.condition_branching_expected
             differs == expected.some /\ expected.value # s.ctx.pc
         IN  [s EXCEPT !.flush = differs \/ s.branch_unit.jump,
                       !.branch_unit = NewBranchUnit]

\* Mvm3::flush
Mvm3Flush(s, pc) ==
    [s EXCEPT !.fetch_unit = FetchUnitFlush(@, pc),
              !.decode_bus = bus_flush(@),
              !.execute_bus = bus_flush(@),
              !.write_bus = bus_flush(@)]

is_complete_but_write_bus(s) ==
    /\ s.fetch_unit.complete
    /\ ~s.execute_unit.processing
    /\ bus_is_empty(s.decode_bus)
    /\ bus_is_empty(s.execute_bus)

\* Mvm3::is_complete
is_complete(s) ==
    /\ s.fetch_unit.complete
    /\ ~s.execute_unit.processing
    /\ bus_is_empty(s.decode_bus)
    /\ bus_is_empty(s.execute_bus)
    /\ bus_is_empty(s.write_bus)

ConnectDecodeBus(s) == [s EXCEPT !.decode_bus = connect(@)]
ConnectExecuteBus(s) == [s EXCEPT !.execute_bus = connect(@)]
ConnectWriteBus(s) == [s EXCEPT !.write_bus = connect(@)]

FlushWithoutDrain(s) ==
    IF ~s.flush THEN s
    ELSE [Mvm3Flush(s, s.ctx.pc) EXCEPT
              !.flushes = @ + 1,
              !.epoch = [fetched |-> Len(s.fetched), decoded |-> Len(s.decoded),
                         popped |-> Len(s.popped)]]

\* The flush at the end of a tick: the element execute has just produced is
\* written back first, at the price of one more cycle.
FlushIfAsked(s) ==
    IF ~s.flush THEN s
    ELSE LET drained ==
                 IF contains_element_in_buffer(s.write_bus)
                 THEN WriteUnitCycle(ConnectWriteBus([s EXCEPT !.cycles = @ + 1,
                                                               !.drains = @ + 1]))
                 ELSE s
         IN  [Mvm3Flush(drained, drained.ctx.pc) EXCEPT
                 !.flushes = @ + 1,
                 !.epoch = [fetched |-> Len(drained.fetched), decoded |-> Len(drained.decoded),
                            popped |-> Len(drained.popped)]]

Complete(s) == IF is_complete(s) THEN [s EXCEPT !.status = "ok"] ELSE s

AfterExecuteSyncsFetch(s) ==
    IF s.status # "running" THEN s
    ELSE Complete(FlushIfAsked(WriteUnitCycle(ConnectWriteBus(PipelineToBeFlushed(
             [s EXCEPT !.fetch_unit.pc = s.ctx.pc])))))

\* The end of a pass of the loop, skipped when execute has returned an error:
\* the check of the branch unit, write-back, the flush, the completion check.
AfterExecute(s) ==
    IF s.status # "running" THEN s
    ELSE Complete(FlushIfAsked(WriteUnitCycle(ConnectWriteBus(PipelineToBeFlushed(s)))))

\* The pass of the loop from the execute bus on, skipped when decode has panicked.
AfterDecode(s) ==
    IF s.status # "running" THEN s
    ELSE AfterExecute(ExecuteUnitCycle(BranchUnitAssert(ConnectExecuteBus(s))))

\* One pass of the loop of Mvm3::run.
Mvm3Tick(s) ==
    AfterDecode(DecodeUnitCycle(ConnectDecodeBus(
        FetchUnitCycle([s EXCEPT !.cycles = @ + 1, !.flush = FALSE, !.stepped = FALSE]))))

\* Mvm3::new, with the ghost fields of the model: the steps run, the indices
\* fetched, executed and retired, the pc each executed step started from and
\* the pc it returned, whether a step completed in the tick, the context the
\* run started from, the indices decoded and those popped by the execute unit,
\* the cycle of each pop and of each step, the Execution each step returned,
\* the cycle of each stall of the execute unit, the flushes and drains counted,
\* how many indices were fetched, decoded and popped before the last flush.
NewM3(ctx) ==
    [ctx |-> ctx, scoreboard |-> NoWriteRegisters,
     fetch_unit |-> NewFetchUnit, decode_bus |-> NewBus, execute_bus |-> NewBus,
     execute_unit |-> NewExecuteUnit, write_bus |-> NewBus, branch_unit |-> NewBranchUnit,
     cycles |-> 0, status |-> "running", error |-> "", flush |-> FALSE,
     steps |-> 0, fetched |-> << >>, executed |-> << >>, retired |-> << >>,
     from |-> << >>, to |-> << >>, stepped |-> FALSE, start |-> ctx,
     decoded |-> << >>, popped |-> << >>, popped_at |-> << >>, executed_at |-> << >>,
     results |-> << >>, stalled_at |-> << >>,
     epoch |-> [fetched |-> 0, decoded |-> 0, popped |-> 0],
     flushes |-> 0, drains |-> 0]

(***************************************************************************)
(* The runs: the same program and the same initial registers and memory    *)
(* are given to each machine in turn.                                      *)
(***************************************************************************)
NewRunner(ctx) == [ctx |-> ctx, status |-> "running", steps |-> 0, error |-> ""]

NewM1(ctx) ==
    [ctx |-> ctx, cycles |-> 0, status |-> "running", steps |-> 0, error |-> "",
     executed |-> << >>]

NoFetch == [pc |-> 0, l1_min |-> 0, l1_max |-> 0, cycles |-> 0]

\* Mvm2::new
NewM2(ctx) ==
    [ctx |-> ctx, l1_min |-> 0 - 1, l1_max |-> 0 - 1, cycles |-> 0, status |-> "running",
     steps |-> 0, error |-> "", fetched |-> NoFetch, fetches |-> 0]

InitWith(programs, registers, profiles) ==
    /\ application \in programs
    /\ checks \in profiles
    /\ phase = "ref"
    /\ \E r \in registers :
          LET ctx == NewContext(r, ZeroMemory)
          IN  /\ ref = NewRunner(ctx)
              /\ m1 = NewM1(ctx)
              /\ m2 = NewM2(ctx)
              /\ m3 = NewM3(ctx)

Init == InitWith(Programs, InitRegisters, {FALSE})

RefStep ==
    /\ phase = "ref"
    /\ ref' = RunnerIterate(ref)
    /\ phase' = IF Stopped(ref') THEN "m1" ELSE phase
    /\ UNCHANGED << application, checks, m1, m2, m3 >>

M1Step ==
    /\ phase = "m1"
    /\ m1' = M1Iterate(m1)
    /\ phase' = IF Stopped(m1') THEN "m2" ELSE phase
    /\ UNCHANGED << application, checks, ref, m2, m3 >>

M2Step ==
    /\ phase = "m2"
    /\ m2' = M2Iterate(m2)
    /\ phase' = IF Stopped(m2') THEN "m3" ELSE phase
    /\ UNCHANGED << application, checks, ref, m1, m3 >>

\* A run of Mvm3 is cut off after MaxSteps steps or MaxCycles cycles.
M3Bounded(s) ==
    IF s.status = "running" /\ (s.steps > StepBound \/ s.cycles > MaxCycles)
    THEN [s EXCEPT !.status = "cut"]
    ELSE s

M3Tick ==
    /\ phase = "m3"
    /\ m3' = M3Bounded(Mvm3Tick(m3))
    /\ phase' = IF Stopped(m3') THEN "done" ELSE phase
    /\ UNCHANGED << application, checks, ref, m1, m2 >>

Next == RefStep \/ M1Step \/ M2Step \/ M3Tick

Spec == Init /\ [][Next]_vars

\* The runs of the straight-line programs.
StraightInit == InitWith(StraightPrograms, InitRegisters, {FALSE})

StraightSpec == StraightInit /\ [][Next]_vars

(***************************************************************************)
(* Store followed by load, run by the reference interpreter alone: the     *)
(* program is a store of T0 and a load into T1 at the same address, T0     *)
(* holding a value drawn from the edges of the three widths.               *)
(***************************************************************************)
StoredValues ==
    { 0, 1, 0 - 1, 127, 128, 255, 256, 258, 2047, 0 - 128, 0 - 129, 32767, 32768, 65535,
      65536, 65537, 0 - 32768, 0 - 32769, 0 - 65536, 16777216, 305419896, 0 - 2023406815,
      MaxI32, MinI32 }

RoundTrips(offset) ==
    { << Sw("T0", offset, "ZERO"), Lw("T1", offset, "ZERO") >>,
      << Sh("T0", offset, "ZERO"), Lh("T1", offset, "ZERO") >>,
      << Sb("T0", offset, "ZERO"), Lb("T1", offset, "ZERO") >> }

RoundTripPrograms ==
    { Application(q, NoLabels) : q \in UNION { RoundTrips(offset) : offset \in 0 .. (MemSize - 1) } }

RoundTripRegisters == { [ZeroRegisters EXCEPT !["T0"] = n] : n \in StoredValues }

OpInit == InitWith(RoundTripPrograms, RoundTripRegisters, {FALSE})

OpSpec == OpInit /\ [][RefStep]_vars

(***************************************************************************)
(* One instruction run by the reference interpreter from edge values of    *)
(* its operand registers, in a build that wraps on overflow and in a build *)
(* that checks it: the comparisons, the wrapping arithmetic and jalr.      *)
(***************************************************************************)
StepValues == { 0, 1, 2, 4, 100, 0 - 1, 0 - 2, 65536, 46341, MaxI32, MaxI32 - 1, MinI32, MinI32 + 1 }

StepOps == { "SLT", "SLTU", "BLT", "BLTU", "BGE", "BGEU", "ADD", "ADDI", "SUB", "MUL" }

StepPrograms ==
    { Application(<< Ins(op, "T2", "T0", "T1", imm, "foo") >>, "foo" :> 8) :
        op \in StepOps, imm \in {1, 0 - 1} }
    \cup { Application(<< Jalr(rd, "T0", 8) >>, NoLabels) : rd \in {"T0", "T2", "ZERO"} }

StepRegisters ==
    { [ZeroRegisters EXCEPT !["T0"] = a, !["T1"] = b] : a \in StepValues, b \in StepValues }

StepInit == InitWith(StepPrograms, StepRegisters, {FALSE, TRUE})

StepSpec == StepInit /\ [][RefStep]_vars

\* The reference run has stored with `store` and loaded with `load`, both without error.
RoundTripDone(store, load) ==
    /\ N = 2
    /\ Instructions[1].op = store
    /\ Instructions[2].op = load
    /\ ref.steps = 2
    /\ ref.status \in {"ok", "cut"}

\* The address, the value stored and the value loaded of a round trip.
Address == Instructions[1].imm
Stored == ref.ctx.registers["T0"]
Loaded == ref.ctx.registers["T1"]

\* The bytes of memory outside a .. a + (n - 1) are as they were at the start.
OthersUntouched(a, n) ==
    \A b \in DOMAIN ref.ctx.memory : (b < a \/ b > a + (n - 1)) => ref.ctx.memory[b] = 0

\* Lane k (0 the lowest) of v as a signed byte, computed arithmetically.
LaneOf(v, k) ==
    LET u == IF v < 0 THEN (v + MaxI32) + 1 ELSE v
        top == IF v < 0 THEN 128 ELSE 0
        b == IF k = 3 THEN (u \div 16777216) + top ELSE (u \div (256 ^ k)) % 256
    IN  IF b >= 128 THEN b - 256 ELSE b

(***************************************************************************)
(* The claims.                                                             *)
(***************************************************************************)
\* What C1 states: a program that terminates on M1 ends on M2 and on M3 too, with
\* the registers and the memory M1 ends with.
C1_SameFinalState ==
    (phase = "done" /\ m1.status = "ok") =>
        /\ m2.status = "ok" /\ m3.status = "ok"
        /\ m2.ctx.registers = m1.ctx.registers /\ m2.ctx.memory = m1.ctx.memory
        /\ m3.ctx.registers = m1.ctx.registers /\ m3.ctx.memory = m1.ctx.memory

\* C2: in the reference interpreter, M1, M2 and M3 the register ZERO reads 0 in
\* every state, whatever instructions ran and whatever write-back committed.
C2_ZeroReadsZero ==
    /\ ref.ctx.registers["ZERO"] = 0
    /\ m1.ctx.registers["ZERO"] = 0
    /\ m2.ctx.registers["ZERO"] = 0
    /\ m3.ctx.registers["ZERO"] = 0

\* C2's case: M1 and M2 have executed `addi zero, t0, 1` with t0 = 1, and the
\* write-back of M3 has committed it.
C2_ZeroWritten ==
    /\ N >= 1
    /\ Instructions[1] = Addi("ZERO", "T0", 1)
    /\ m1.steps >= 1 /\ m2.steps >= 1
    /\ m1.ctx.registers["T0"] = 1
    /\ \E k \in DOMAIN m3.retired : m3.retired[k] = 0

\* The records on the execute->write bus: executed, not yet committed.
WriteBusRecords == m3.write_bus.entry \o m3.write_bus.buffer \o m3.write_bus.queue

\* How many of the records write register r.
RECURSIVE PendingWrites(_, _)
PendingWrites(records, r) ==
    IF Len(records) = 0 THEN 0
    ELSE Count(Head(records).write_registers, r) + PendingWrites(Tail(records), r)

\* How many times the instruction held in the execute stage writes register r.
HeldWrites(r) ==
    IF m3.execute_unit.processing
    THEN Count(write_registers(Instructions[m3.execute_unit.runner + 1]), r)
    ELSE 0

\* A tick of M3 has ended without an error or a panic inside it.
TickEnded == m3.status \in {"running", "ok", "cut"}

C4_M3Returns == (phase = "done" /\ m1.status = "ok") => (m3.status = "ok" /\ is_complete(m3))

\* C5: SW then LW at the same in-range address loads the value stored, the four
\* bytes in memory are its lanes, lowest first, and i32_from_bytes of the lanes of
\* bytes_from_low_bits gives the value back.
C5_WordRoundTrip ==
    RoundTripDone("SW", "LW") =>
        /\ Loaded = Stored
        /\ \A k \in 0 .. 3 : ref.ctx.memory[Address + k] = LaneOf(Stored, k)
        /\ bytes_from_low_bits(Stored)[1] = LaneOf(Stored, 0)
        /\ i32_from_bytes(bytes_from_low_bits(Stored)[1], bytes_from_low_bits(Stored)[2],
                          bytes_from_low_bits(Stored)[3], bytes_from_low_bits(Stored)[4]) = Stored

\* C5's case: a negative value with four different lanes went through SW and LW
\* at an address other than 0.
C5_WordStoredAndLoaded ==
    RoundTripDone("SW", "LW") /\ Stored = 0 - 2023406815 /\ Address > 0

\* C6: SH then LH at the same address writes the two low lanes of the value and
\* no other byte, and loads the value modulo 65536, which is never negative.
C6_HalfRoundTrip ==
    RoundTripDone("SH", "LH") =>
        /\ ref.ctx.memory[Address] = LaneOf(Stored, 0)
        /\ ref.ctx.memory[Address + 1] = LaneOf(Stored, 1)
        /\ OthersUntouched(Address, 2)
        /\ Loaded = Stored % 65536
        /\ Loaded >= 0

\* C6's case: a value whose bit 15 is set and whose high lanes are not zero went
\* through SH and LH.
C6_HalfStoredAndLoaded ==
    RoundTripDone("SH", "LH") /\ Stored = 0 - 32768 /\ Loaded = 32768

\* C7: SB then LB at the same address stores the low 8 bits of the value as one
\* signed byte and loads that byte sign-extended; 2047 loads -1.
C7_ByteRoundTrip ==
    RoundTripDone("SB", "LB") =>
        /\ ref.ctx.memory[Address] = LaneOf(Stored, 0)
        /\ OthersUntouched(Address, 1)
        /\ Loaded = LaneOf(Stored, 0)
        /\ Loaded >= 0 - 128 /\ Loaded <= 127
        /\ Loaded % 256 = Stored % 256
        /\ (Stored = 2047 => Loaded = 0 - 1)

\* C7's case: 2047 went through SB and LB.
C7_ByteStoredAndLoaded == RoundTripDone("SB", "LB") /\ Stored = 2047 /\ Loaded = 0 - 1

\* The cycles C8 gives one executed instruction.
C8_Cost(op) ==
    50 + 1 + (IF op \in {"LB", "LH", "LW", "SB", "SH", "SW"} THEN 50 ELSE 1)
           + (IF op \in {"SB", "SH", "SW"} THEN 0 ELSE 1)

RECURSIVE C8_Sum(_)
C8_Sum(ops) == IF Len(ops) = 0 THEN 0 ELSE C8_Cost(Head(ops)) + C8_Sum(Tail(ops))

\* C8: as long as the run of M1 has not failed, its cycle total is the sum over
\* the instructions executed of fetch 50, decode 1, the execute cost (50 for a
\* load or a store, 1 otherwise) and 1 for write-back unless it is a store.
C8_M1Cycles == m1.status \in {"running", "ok", "cut"} => m1.cycles = C8_Sum(m1.executed)

\* C8's case: M1 has executed a store more than once.
C8_M1Executed == Len(m1.executed) >= 2 /\ m1.executed[1] = "SW" /\ m1.cycles >= 200

\* What C9 states, for the first pass of the loop of M1: after the instruction
\* has executed, the pc of the machine is the next pc its step returned.
C9_PcIsReturnedPc ==
    (phase = "m1" /\ m1.steps = 1 /\ m1.status = "running") =>
        m1.ctx.pc = run(Instructions[1], m3.ctx, Labels, checks).pc

\* Whether the last fetch of M2 found its pc in the line it had.
C10_Hit == m2.fetched.pc >= m2.fetched.l1_min /\ m2.fetched.pc <= m2.fetched.l1_max

\* What the last fetch of M2 did, a miss charging `miss` cycles.
C10_Fetch(miss) ==
    m2.fetches >= 1 =>
        IF C10_Hit
        THEN /\ m2.fetched.cycles = 1
             /\ m2.l1_min = m2.fetched.l1_min /\ m2.l1_max = m2.fetched.l1_max
        ELSE /\ m2.fetched.cycles = miss
             /\ m2.l1_min = m2.fetched.pc /\ m2.l1_max = m2.fetched.pc + 64

C11_InFirstLine == N >= 1 /\ 4 * (N - 1) <= L1I_CACHE_LINE

C11_StraightCycles ==
    (phase = "done" /\ C11_InFirstLine)
        => /\ m3.status = "ok"
           /\ m3.cycles = 53 + N
           /\ m3.retired = [i \in 1 .. N |-> i - 1]
           /\ m3.ctx.registers = ref.ctx.registers
           /\ bus_is_empty(m3.write_bus)

\* The longest such program has run: 129 instructions in 182 cycles.
C11_FullLine ==
    /\ phase = "done"
    /\ N = 129
    /\ m3.cycles = 182
    /\ Len(m3.retired) = 129
    /\ m3.ctx.registers["T2"] = 129

(***************************************************************************)
(* C12: in M3, once a JAL or JALR has executed, the instructions fetched   *)
(* after it on its fall-through path are dropped: the tick of the jump     *)
(* flushes, leaves both buses and the execute unit empty and the fetch     *)
(* unit at the jump target; the next instruction to execute is the one at  *)
(* the target; and only executed instructions are committed, in order.     *)
(***************************************************************************)
OpAt(idx) == Instructions[idx + 1].op

IsJump(idx) == OpAt(idx) \in {"JAL", "JALR"}

IsPrefix(a, b) == Len(a) <= Len(b) /\ \A i \in 1 .. Len(a) : a[i] = b[i]

C12_JumpStepped ==
    /\ phase \in {"m3", "done"}
    /\ TickEnded
    /\ m3.stepped
    /\ IsJump(m3.executed[Len(m3.executed)])

C12_JumpFlushes ==
    /\ C12_JumpStepped
          => /\ m3.flush
             /\ bus_is_empty(m3.decode_bus)
             /\ bus_is_empty(m3.execute_bus)
             /\ ~m3.execute_unit.processing
             /\ m3.fetch_unit.pc = m3.to[Len(m3.to)]
             /\ m3.ctx.pc = m3.to[Len(m3.to)]
    /\ \A j \in 1 .. Len(m3.executed) - 1 :
          IsJump(m3.executed[j]) => m3.executed[j + 1] = TruncDiv(m3.to[j], 4)
    /\ IsPrefix(m3.retired, m3.executed)

\* A jump over a store and an addi has executed, with both fetched behind it,
\* and the run has ended at the target without either having run.
C12_JumpedOver ==
    /\ phase = "done"
    /\ m3.status = "ok"
    /\ \E j \in 1 .. Len(m3.executed) :
          /\ IsJump(m3.executed[j])
          /\ m3.to[j] = m3.from[j] + 12
          /\ \E f \in 1 .. Len(m3.fetched) - 1 :
                /\ m3.fetched[f] = m3.executed[j] + 1
                /\ m3.fetched[f + 1] = m3.executed[j] + 2
          /\ m3.executed[j] + 1 \notin { m3.executed[i] : i \in 1 .. Len(m3.executed) }
          /\ m3.executed[j] + 2 \notin { m3.executed[i] : i \in 1 .. Len(m3.executed) }

(***************************************************************************)
(* C13: in M3, whenever a conditional branch of any of the six opcodes     *)
(* BEQ, BNE, BLT, BLTU, BGE, BGEU executes and returns a pc other than its *)
(* own pc + 4, that tick flushes and leaves fetch at the branch target,    *)
(* and the next instruction to execute is the one at the target.           *)
(***************************************************************************)
SixBranches == {"BEQ", "BNE", "BLT", "BLTU", "BGE", "BGEU"}

Diverted(j) == OpAt(m3.executed[j]) \in SixBranches /\ m3.to[j] # m3.from[j] + 4

C13_TakenBranchFlushes ==
    /\ (phase \in {"m3", "done"} /\ TickEnded /\ m3.stepped /\ Diverted(Len(m3.executed)))
          => /\ m3.flush
             /\ m3.fetch_unit.pc = m3.to[Len(m3.to)]
    /\ \A j \in 1 .. Len(m3.executed) - 1 :
          Diverted(j) => m3.executed[j + 1] = TruncDiv(m3.to[j], 4)

(***************************************************************************)
(* C14: in M3 a tick flushes only if the instruction that completed        *)
(* execute in that tick is a JAL or JALR, or a conditional branch that     *)
(* returned a pc other than its own pc + 4, whatever waits behind it on    *)
(* the decode->execute bus.                                                *)
(***************************************************************************)
C14_FlushOnlyOnControl ==
    (phase \in {"m3", "done"} /\ TickEnded /\ m3.flush)
        => /\ m3.stepped
           /\ IsJump(m3.executed[Len(m3.executed)]) \/ Diverted(Len(m3.executed))

(***************************************************************************)
(* C15: from registers all zero M3 ends the jal program of the tests after *)
(* exactly 59 cycles with T0 = 1, T1 = 0, T2 = 3, the taken-beq program    *)
(* after exactly 61 cycles with T0 = 1, T1 = 1, T2 = 3, and the not-taken  *)
(* beq program after exactly 59 cycles with T0 = 0, T1 = 2, T2 = 3.        *)
(***************************************************************************)
C15_Ended(cycles, t0, t1, t2) ==
    /\ m3.status = "ok"
    /\ m3.cycles = cycles
    /\ m3.ctx.registers = [ZeroRegisters EXCEPT !["T0"] = t0, !["T1"] = t1, !["T2"] = t2]

C15_TestedCycles ==
    (phase = "done" /\ m3.start.registers = ZeroRegisters)
        => /\ application = TestJal => C15_Ended(59, 1, 0, 3)
           /\ application = TestBranchTrue => C15_Ended(61, 1, 1, 3)
           /\ application = TestBranchFalse => C15_Ended(59, 0, 2, 3)

\* The taken-beq program has run to its end from registers all zero, with its
\* one flush.
C15_TakenRun ==
    /\ phase = "done"
    /\ m3.start.registers = ZeroRegisters
    /\ application = TestBranchTrue
    /\ m3.flushes = 1
    /\ m3.executed = << 0, 1, 2, 4 >>

(***************************************************************************)
(* C16: a JAL whose label is absent from the label map, and a conditional  *)
(* branch to such a label whose condition holds, fail with the error       *)
(* "label <name> does not exist" and the run (of the reference             *)
(* interpreter, of M1, of M2) returns that error; a branch whose condition *)
(* is false steps to pc + 4 even when its label is absent.                 *)
(***************************************************************************)
C16_Message(label) == "label " \o label \o " does not exist"

C16_Holds(op, a, b) ==
    CASE op = "BEQ" -> a = b
      [] op = "BNE" -> a # b
      [] op \in {"BLT", "BLTU"} -> a < b
      [] op \in {"BGE", "BGEU"} -> a >= b

C16_Absent(ins) ==
    ins.op \in {"JAL"} \cup SixBranches /\ ins.label \notin DOMAIN Labels

C16_Step(ins) ==
    IF ins.op = "JAL" \/ C16_Holds(ins.op, ref.ctx.registers[ins.rs1], ref.ctx.registers[ins.rs2])
    THEN /\ ref'.status = "err"
         /\ ref'.error = C16_Message(ins.label)
         /\ phase' = "m1"
    ELSE /\ ref'.status # "err"
         /\ ref'.ctx.pc = ref.ctx.pc + 4

C16_Returned(m) ==
    m.status = "err"
        => \E i \in 1 .. N : C16_Absent(Instructions[i]) /\ m.error = C16_Message(Instructions[i].label)

C16_UnknownLabel ==
    [][/\ (phase = "ref" /\ TruncDiv(ref.ctx.pc, 4) \in 0 .. N - 1
              /\ C16_Absent(Instructions[TruncDiv(ref.ctx.pc, 4) + 1]))
            => C16_Step(Instructions[TruncDiv(ref.ctx.pc, 4) + 1])
       /\ C16_Returned(ref') /\ C16_Returned(m1') /\ C16_Returned(m2')]_vars

\* A beq to the absent label bar, its operands equal, has failed in the
\* reference run and on M1 and M2.
C16_BranchFailed ==
    /\ phase = "m3"
    /\ N = 2
    /\ Instructions[1].op = "BEQ"
    /\ ref.status = "err" /\ ref.error = "label bar does not exist"
    /\ m1.status = "err" /\ m1.error = "label bar does not exist"
    /\ m2.status = "err" /\ m2.error = "label bar does not exist"

(***************************************************************************)
(* C17: a step that fails changes nothing and ends the run.  In the        *)
(* reference run, M1 and M2 the registers, the memory and the pc are those *)
(* before the step.  In M3 the tick of the failure leaves registers,       *)
(* memory, pc, scoreboard and execute->write bus as they were before the   *)
(* tick, commits nothing, runs no flush and no drain cycle, leaves fetch   *)
(* unit and fetch->decode bus as the first half of the tick made them and  *)
(* the decode->execute bus less at most the failing instruction; and no    *)
(* tick follows.                                                           *)
(***************************************************************************)
C17_Fails(m, n) == m.status = "running" /\ n.status = "err"

C17_BeforeExecute(s) ==
    BranchUnitAssert(ConnectExecuteBus(DecodeUnitCycle(ConnectDecodeBus(
        FetchUnitCycle([s EXCEPT !.cycles = @ + 1, !.flush = FALSE, !.stepped = FALSE])))))

C17_TickFailed(s, n, before) ==
    /\ n.ctx = s.ctx
    /\ n.scoreboard = s.scoreboard
    /\ n.write_bus = s.write_bus
    /\ n.retired = s.retired
    /\ n.executed = s.executed
    /\ n.cycles = s.cycles + 1
    /\ ~n.flush
    /\ n.flushes = s.flushes /\ n.drains = s.drains
    /\ n.fetch_unit = before.fetch_unit
    /\ n.decode_bus = before.decode_bus
    /\ n.branch_unit = before.branch_unit
    /\ n.execute_bus \in { before.execute_bus, bus_get(before.execute_bus) }

C17_FailedStepChangesNothing ==
    [][/\ C17_Fails(ref, ref') => ref'.ctx = ref.ctx /\ phase' = "m1"
       /\ C17_Fails(m1, m1') => m1'.ctx = m1.ctx /\ phase' = "m2"
       /\ C17_Fails(m2, m2') => m2'.ctx = m2.ctx /\ phase' = "m3"
       /\ C17_Fails(m3, m3') => C17_TickFailed(m3, m3', C17_BeforeExecute(m3)) /\ phase' = "done"
       /\ m3.status = "err" => m3' = m3]_vars

\* A jal to the absent label bar has failed on M3 while the write of the addi
\* before it was still on the execute->write bus: the link register and t0
\* are as at the start.
C17_JalFailed ==
    /\ phase = "done"
    /\ m3.status = "err"
    /\ m3.execute_unit.processing
    /\ OpAt(m3.execute_unit.runner) = "JAL"
    /\ m3.executed = << 0 >>
    /\ ~bus_is_empty(m3.write_bus)
    /\ m3.ctx.registers = m3.start.registers
    /\ ref.status = "err"
    /\ ref.ctx.registers["T2"] = m3.start.registers["T2"]

(***************************************************************************)
(* C18: SLTU, BLTU and BGEU compare their operands as signed 32-bit        *)
(* integers: for every pair of register values SLTU leaves what SLT        *)
(* leaves, BLTU the next pc of BLT and BGEU the next pc of BGE, which are  *)
(* 1 or the branch target exactly when the signed comparison holds.        *)
(***************************************************************************)
StepDone == N = 1 /\ ref.steps = 1

StepA == m3.start.registers["T0"]
StepB == m3.start.registers["T1"]

SignedTwin(op) == CASE op = "SLTU" -> "SLT" [] op = "BLTU" -> "BLT" [] op = "BGEU" -> "BGE"

AsRunBy(op) == run([Instructions[1] EXCEPT !.op = op], m3.start, Labels, checks)

C18_SameAs(r) == r.status = "ok" /\ ref.ctx = [r.ctx EXCEPT !.pc = r.pc]

C18_SignedCompare ==
    (StepDone /\ Instructions[1].op \in {"SLTU", "BLTU", "BGEU"})
        => /\ C18_SameAs(AsRunBy(SignedTwin(Instructions[1].op)))
           /\ Instructions[1].op = "SLTU"
                 => ref.ctx.registers["T2"] = (IF StepA < StepB THEN 1 ELSE 0)
           /\ Instructions[1].op = "BLTU" => ref.ctx.pc = (IF StepA < StepB THEN 8 ELSE 4)
           /\ Instructions[1].op = "BGEU" => ref.ctx.pc = (IF StepA >= StepB THEN 8 ELSE 4)

\* sltu has compared -1 with 1 and written 1: as unsigned numbers 4294967295
\* is not below 1.
C18_NegativeBelowOne ==
    /\ StepDone
    /\ Instructions[1].op = "SLTU"
    /\ StepA = 0 - 1 /\ StepB = 1
    /\ ref.ctx.registers["T2"] = 1

(***************************************************************************)
(* C19: ADD, ADDI, SUB and MUL always succeed and write the mathematical   *)
(* result reduced modulo 2^32 into the signed 32-bit range; an operation   *)
(* that overflows never fails or aborts the run.                           *)
(***************************************************************************)
C19_Wrapped(op, imm) ==
    CASE op = "ADD" -> AddI32(StepA, StepB)
      [] op = "ADDI" -> AddI32(StepA, imm)
      [] op = "SUB" -> SubI32(StepA, StepB)
      [] op = "MUL" -> MulI32(StepA, StepB)

C19_ArithmeticWraps ==
    (phase = "m1" /\ N = 1 /\ Instructions[1].op \in {"ADD", "ADDI", "SUB", "MUL"})
        => /\ ref.status = "ok"
           /\ ref.steps = 1
           /\ ref.ctx.registers["T2"] = C19_Wrapped(Instructions[1].op, Instructions[1].imm)

(***************************************************************************)
(* C20: JALR writes pc + 4 into rd and sets the next pc to the value rs    *)
(* held before the instruction plus imm, for every choice of registers,    *)
(* rd and rs the same register included.                                   *)
(***************************************************************************)
C20_JalrUsesOldRs ==
    (StepDone /\ Instructions[1].op = "JALR")
        => /\ ref.ctx.registers[Instructions[1].rd]
                 = (IF Instructions[1].rd = "ZERO" THEN 0 ELSE m3.start.pc + 4)
           /\ ref.ctx.pc = AddI32(m3.start.registers[Instructions[1].rs1], Instructions[1].imm)

(***************************************************************************)
(* C21: an element added to a bus of M3 during a tick cannot be read by    *)
(* the consuming stage during that tick; it has left the entry zone by the *)
(* end of the tick and is readable during the next tick.  As claimed: it   *)
(* is readable during the next tick in every case.  As the code has it: it *)
(* is readable during the next tick when the queue of the bus has room at  *)
(* that tick's connect, and waits in the buffer while the queue is full.   *)
(***************************************************************************)
\* A pass of the loop of Mvm3::run that ran to its end.
FullTick == phase = "m3" /\ m3.status = "running" /\ m3'.status \in {"running", "ok", "cut"}

\* What was on a bus before the tick, in the order it is read.
Earlier(bus) == bus.queue \o bus.buffer

\* The elements a stage has read in the tick: those its record has gained.
Gained(before, after) == SubSeq(after, Len(before) + 1, Len(after))

\* The stage read nothing, or the oldest element that was on the bus before the tick.
ReadsEarlier(bus, before, after) ==
    Gained(before, after) = << >>
        \/ (Earlier(bus) # << >> /\ Gained(before, after) = << Head(Earlier(bus)) >>)

\* The indices of the records in a zone of the execute->write bus.  Write-back
\* in a pass that drains before its flush reads once more, in the cycle the
\* drain counts, what execute added in the first cycle of the pass.
WriteBusIndices(zone) == [i \in 1 .. Len(zone) |-> zone[i].idx]

WriteBusEarlier ==
    [queue |-> WriteBusIndices(m3.write_bus.queue), buffer |-> WriteBusIndices(m3.write_bus.buffer)]

NotReadInTheTickOfAdd ==
    /\ ReadsEarlier(m3.decode_bus, m3.decoded, m3'.decoded)
    /\ ReadsEarlier(m3.execute_bus, m3.popped, m3'.popped)
    /\ IF m3'.drains = m3.drains
       THEN ReadsEarlier(WriteBusEarlier, m3.retired, m3'.retired)
       ELSE /\ m3'.cycles = m3.cycles + 2
            /\ Gained(m3.retired, m3'.retired)
                  = Earlier(WriteBusEarlier) \o << m3'.executed[Len(m3'.executed)] >>
    /\ m3'.decode_bus.entry = << >>
    /\ m3'.execute_bus.entry = << >>
    /\ m3'.write_bus.entry = << >>

\* The element in the buffer of a bus before the tick is in its queue after
\* the tick, or has been read in the tick, or the tick has flushed the bus.
ReadableNextTick(buffer, queue, gained) ==
    buffer # << >> => (m3'.flush \/ queue = buffer \/ gained = buffer)

C21_Readable(always) ==
    /\ (always \/ m3.decode_bus.queue = << >>)
          => ReadableNextTick(m3.decode_bus.buffer, m3'.decode_bus.queue,
                              Gained(m3.decoded, m3'.decoded))
    /\ (always \/ m3.execute_bus.queue = << >>)
          => ReadableNextTick(m3.execute_bus.buffer, m3'.execute_bus.queue,
                              Gained(m3.popped, m3'.popped))
    /\ (always \/ m3.write_bus.queue = << >>)
          => ReadableNextTick(WriteBusIndices(m3.write_bus.buffer),
                              WriteBusIndices(m3'.write_bus.queue),
                              Gained(m3.retired, m3'.retired))

\* A full queue keeps the element behind it in the buffer.
C21_Waits(bus, after) == (bus.queue # << >> /\ after.queue = bus.queue) => after.buffer = bus.buffer

Held(bus) == Len(bus.entry) + Len(bus.buffer) + Len(bus.queue)

C22_CapacityOne ==
    (phase \in {"m3", "done"} /\ TickEnded)
        => /\ Held(m3.decode_bus) <= BusMax
           /\ Held(m3.execute_bus) <= BusMax
           /\ Held(m3.write_bus) <= BusMax

(***************************************************************************)
(* C23: in M3 the semantic step of an instruction runs only in a tick at   *)
(* whose start none of the registers it reads is in the scoreboard, and an *)
(* instruction held with such a register stalls.  Every earlier executed   *)
(* instruction that writes a register it reads has then been retired, and  *)
(* the value it reads is the one the latest of them returned (the value at *)
(* the start of the run when there is none).                               *)
(***************************************************************************)
InsAt(idx) == Instructions[idx + 1]

\* The executed steps, among the first n, that write register r.
Writers(r, n) ==
    { j \in 1 .. n : r # "ZERO" /\ write_back(OpAt(m3.executed[j]))
                                /\ write_registers(InsAt(m3.executed[j])) = << r >> }

Maximum(S) == CHOOSE x \in S : \A y \in S : y <= x

LatestValue(r, n) ==
    IF Writers(r, n) = {} THEN m3.start.registers[r]
    ELSE m3.results[Maximum(Writers(r, n))].value

C23_ReadsCommitted(ins) ==
    \A r \in read_registers(ins) :
        /\ m3.scoreboard[r] = 0
        /\ \A j \in Writers(r, Len(m3.executed)) : j <= Len(m3.retired)
        /\ m3.ctx.registers[r] = LatestValue(r, Len(m3.executed))

\* The instruction whose last cycle in execute is this tick: the one held
\* with one cycle left, or the one-cycle instruction popped in the tick.
C23_Due(idx) ==
    \/ /\ m3.execute_unit.processing
       /\ m3.execute_unit.runner = idx
       /\ m3.execute_unit.remaining_cycles = 1
    \/ /\ ~m3.execute_unit.processing
       /\ Gained(m3.popped, m3'.popped) = << idx >>
       /\ cycles_per_instruction(OpAt(idx)) = 1

C23_Stalls ==
    \A idx \in 0 .. N - 1 :
        (C23_Due(idx) /\ \E r \in read_registers(InsAt(idx)) : m3.scoreboard[r] > 0)
            => /\ ~m3'.stepped
               /\ m3'.executed = m3.executed
               /\ m3'.execute_unit = [processing |-> TRUE, remaining_cycles |-> 1,
                                      runner |-> idx]

C23_StepReadsCommitted ==
    [][FullTick => /\ IsPrefix(m3.retired, m3.executed)
                   /\ m3'.stepped => C23_ReadsCommitted(InsAt(m3'.executed[Len(m3'.executed)]))
                   /\ C23_Stalls]_vars

\* add t1, t0, t0 stalled for one tick, the tick after the addi that writes
\* t0 executed, and then read the 1 the addi committed.
C23_Stalled ==
    /\ phase = "done"
    /\ m3.status = "ok"
    /\ Instructions = << Addi("T0", "ZERO", 1), Add("T1", "T0", "T0") >>
    /\ m3.executed = << 0, 1 >>
    /\ m3.stalled_at = << m3.executed_at[1] + 1 >>
    /\ m3.executed_at[2] = m3.executed_at[1] + 2
    /\ m3.ctx.registers["T1"] = 2

(***************************************************************************)
(* C24: the scoreboard counts writers per register.  At the end of every   *)
(* tick the count of a register is the number of executed instructions,    *)
(* not yet retired, that write it; so when two such instructions write the *)
(* same register, retiring the first leaves it pending until the second is *)
(* retired, and an instruction that reads it steps only after that.        *)
(***************************************************************************)
Unretired(s, r) ==
    { j \in Len(s.retired) + 1 .. Len(s.executed) :
        write_back(OpAt(s.executed[j])) /\ write_registers(InsAt(s.executed[j])) = << r >> }

C24_ScoreboardCountsWriters ==
    [][FullTick =>
          /\ IsPrefix(m3'.retired, m3'.executed)
          /\ \A r \in RegisterType : m3'.scoreboard[r] = Cardinality(Unretired(m3', r))
          /\ m3'.stepped =>
                \A r \in read_registers(InsAt(m3'.executed[Len(m3'.executed)])) :
                    Unretired(m3, r) = {}]_vars

\* lw t0 and addi t0, zero, 2 are both executed and not retired in one tick;
\* at its end the lw is retired, t0 is still pending for the addi, and the
\* add that reads t0 is yet to execute.
C24_FirstRetiredSecondPending ==
    /\ phase = "m3"
    /\ m3.status = "running"
    /\ Instructions = << Lw("T0", 0, "ZERO"), Addi("T0", "ZERO", 2), Add("T1", "T0", "T0") >>
    /\ m3.executed = << 0, 1 >>
    /\ m3.executed_at[2] = m3.cycles
    /\ m3.retired = << 0 >>
    /\ m3.scoreboard["T0"] = 1

\* The add then stalls one tick and reads the 2 of the second writer.
C24_ReaderWaited ==
    /\ phase = "done"
    /\ m3.status = "ok"
    /\ Instructions = << Lw("T0", 0, "ZERO"), Addi("T0", "ZERO", 2), Add("T1", "T0", "T0") >>
    /\ m3.stalled_at = << m3.executed_at[2] + 1 >>
    /\ m3.ctx.registers["T1"] = 4

(***************************************************************************)
(* C25: at the end of a tick of M3 that flushed, the three buses are empty *)
(* in their three zones, the instruction that executed in the tick is a    *)
(* jump or a branch, the pc of the fetch unit is the machine pc, which is  *)
(* the pc that instruction returned, and the fetch unit is neither         *)
(* processing nor complete.                                                *)
(***************************************************************************)
C25_BusesEmpty ==
    Held(m3.decode_bus) = 0 /\ Held(m3.execute_bus) = 0 /\ Held(m3.write_bus) = 0

C25_FetchRestarts ==
    /\ m3.fetch_unit.pc = m3.ctx.pc
    /\ ~m3.fetch_unit.processing
    /\ ~m3.fetch_unit.complete

C25_ByJumpOrBranch ==
    /\ m3.stepped
    /\ IsJump(m3.executed[Len(m3.executed)]) \/ OpAt(m3.executed[Len(m3.executed)]) \in SixBranches
    /\ m3.ctx.pc = m3.to[Len(m3.to)]

C25_AfterFlush ==
    (phase \in {"m3", "done"} /\ TickEnded /\ m3.flush)
        => (C25_BusesEmpty /\ C25_FetchRestarts /\ C25_ByJumpOrBranch)

(***************************************************************************)
(* C26: a tick of M3 that flushes counts exactly one cycle more than a     *)
(* tick that does not, for the write-back of the result execute has just   *)
(* put on the write bus, and at its end every executed instruction,        *)
(* the one that caused the flush included, is retired: the scoreboard is   *)
(* empty and every register holds the value its latest executed writer     *)
(* returned.  No tick retires an instruction that has not executed or      *)
(* skips one that has.                                                     *)
(***************************************************************************)
C26_Drained ==
    /\ m3'.cycles = m3.cycles + 2
    /\ m3'.drains = m3.drains + 1
    /\ m3'.flushes = m3.flushes + 1
    /\ Len(m3'.executed) = Len(m3.executed) + 1
    /\ m3'.retired = m3'.executed
    /\ m3'.scoreboard = NoWriteRegisters
    /\ \A r \in RegisterType : m3'.ctx.registers[r] = LatestValue(r, Len(m3.executed))'

C26_NotDrained ==
    /\ m3'.cycles = m3.cycles + 1
    /\ m3'.drains = m3.drains
    /\ m3'.flushes = m3.flushes

C26_FlushWritesBackFirst ==
    [][FullTick => /\ IF m3'.flush THEN C26_Drained ELSE C26_NotDrained
                   /\ IsPrefix(m3'.retired, m3'.executed)
                   /\ IsPrefix(m3.retired, m3'.retired)]_vars

\* The jal of the program of test_pipelining_jal has executed and flushed:
\* its link is in t2, one drain was counted, nothing is left to retire.
C26_JalLinkCommitted ==
    /\ phase = "m3"
    /\ m3.status = "running"
    /\ application = TestJal
    /\ m3.flush
    /\ m3.executed = << 0, 1 >>
    /\ m3.retired = << 0, 1 >>
    /\ m3.drains = 1
    /\ m3.ctx.registers["T2"] = 8
    /\ m3.scoreboard = NoWriteRegisters

(***************************************************************************)
(* C27: at the end of every tick of M3, and so after every flush, each     *)
(* register left in the scoreboard is written by an executed instruction   *)
(* that is not yet retired and whose record is still on the write bus; no  *)
(* instruction the flush discarded (fetched, decoded or waiting, never     *)
(* executed) has an entry.  An instruction that stalled in a tick steps in *)
(* the next one, so none stalls forever.                                   *)
(***************************************************************************)
C27_OnWriteBus(s, j) ==
    \E k \in 1 .. Len(s.write_bus.buffer) : s.write_bus.buffer[k].idx = s.executed[j]

C27_EntriesAreUnretired(s) ==
    /\ s.write_bus.entry = << >> /\ s.write_bus.queue = << >>
    /\ \A r \in RegisterType :
          s.scoreboard[r] > 0 => \E j \in Unretired(s, r) : C27_OnWriteBus(s, j)
    /\ s.flush => s.scoreboard = NoWriteRegisters

C27_StalledLastTick ==
    m3.stalled_at # << >> /\ m3.stalled_at[Len(m3.stalled_at)] = m3.cycles

C27_NoDiscardedWriter ==
    [][FullTick => /\ C27_EntriesAreUnretired(m3')
                   /\ C27_StalledLastTick => m3'.stepped]_vars

\* jal t2, foo has flushed the addi behind it away; the add at foo, fetched
\* after the flush, reads t2 and has run to the end without a stall.
C27_ReaderAfterFlush ==
    /\ phase = "done"
    /\ m3.status = "ok"
    /\ Instructions = << Jal("T2", "foo"), Addi("T1", "ZERO", 2), Add("T1", "T2", "T2") >>
    /\ m3.flushes = 1
    /\ m3.decoded = << 0, 1, 2 >>
    /\ m3.executed = << 0, 2 >>
    /\ m3.stalled_at = << >>
    /\ m3.ctx.registers["T1"] = 8
    /\ m3.scoreboard = NoWriteRegisters

(***************************************************************************)
(* C28: in a tick of M3 the pc of the fetch unit changes only by +4, when  *)
(* the unit enqueues the index of its pc, and by assignment of the machine *)
(* pc at a flush.  In a tick without flush the fetch unit ends as its own  *)
(* cycle at the start of the tick left it, pc, flags and cached line,      *)
(* whatever pc the step executed in the tick gave the machine.             *)
(***************************************************************************)
C28_Enqueued == Gained(m3.fetched, m3'.fetched)

C28_OwnCycle ==
    /\ m3'.fetch_unit = FetchUnitCycle(m3).fetch_unit
    /\ \/ /\ C28_Enqueued = << TruncDiv(m3.fetch_unit.pc, 4) >>
          /\ m3'.fetch_unit.pc = m3.fetch_unit.pc + 4
       \/ /\ C28_Enqueued = << >>
          /\ m3'.fetch_unit.pc = m3.fetch_unit.pc
          /\ m3'.fetch_unit.complete = m3.fetch_unit.complete

C28_Assigned ==
    /\ m3'.fetch_unit.pc = m3'.ctx.pc
    /\ m3'.fetch_unit.l1i = FetchUnitCycle(m3).fetch_unit.l1i

C28_FetchPcIsItsOwn ==
    [][FullTick => IF m3'.flush THEN C28_Assigned ELSE C28_OwnCycle]_vars

\* The first addi of the program of test_pipelining_multiple has executed:
\* the machine pc is 4 while the fetch unit, complete, is at pc 12.
C28_ExecuteMovedMachinePc ==
    /\ phase = "m3"
    /\ m3.status = "running"
    /\ application = TestMultiple
    /\ m3.stepped /\ ~m3.flush
    /\ m3.executed = << 0 >>
    /\ m3.ctx.pc = 4
    /\ m3.fetch_unit.pc = 12
    /\ m3.fetch_unit.complete

(***************************************************************************)
(* C29: when M3's run has returned, the fetch unit is complete, the        *)
(* execute unit is idle, the three buses are empty in their three zones,   *)
(* every instruction that executed has been retired and the scoreboard is  *)
(* empty.  As stated the claim covers every return of run, the return of   *)
(* an error included; amended, it covers the return of the cycle count.    *)
(***************************************************************************)
C29_AllRetired ==
    /\ m3.fetch_unit.complete
    /\ ~m3.execute_unit.processing
    /\ C25_BusesEmpty
    /\ m3.retired = m3.executed
    /\ m3.scoreboard = NoWriteRegisters

C29_ReturnsComplete == (phase = "done" /\ m3.status \in {"ok", "err"}) => C29_AllRetired

C29_ReturnsOkComplete == (phase = "done" /\ m3.status = "ok") => C29_AllRetired

\* The taken-beq program of the tests has returned its cycle count: its four
\* executed instructions are retired, the skipped addi never executed.
C29_ReturnedOk ==
    /\ phase = "done"
    /\ m3.status = "ok"
    /\ application = TestBranchTrue
    /\ m3.executed = << 0, 1, 2, 4 >>
    /\ m3.retired = << 0, 1, 2, 4 >>
    /\ m3.ctx.registers["T2"] = 3

(***************************************************************************)
(* C30: in M3 an instruction steps in the tick that is its 50th in the     *)
(* execute unit when it is a load or a store, its first otherwise, one     *)
(* tick later for each tick in which it stalled.  The instructions         *)
(* executed are, in order, the instructions the execute unit popped from   *)
(* its bus, and an instruction is popped only in a tick after the one in   *)
(* which the instruction before it stepped.                                *)
(***************************************************************************)
C30_HeldTicks(op) == IF op \in {"LB", "LH", "LW", "SB", "SH", "SW"} THEN 50 ELSE 1

\* The ticks, from the one in which it was popped, in which the j-th popped
\* instruction stalled.
C30_Stalls(j) ==
    Cardinality({ k \in DOMAIN m3.stalled_at : m3.stalled_at[k] >= m3.popped_at[j] })
        - (IF j < Len(m3.popped_at)
           THEN Cardinality({ k \in DOMAIN m3.stalled_at : m3.stalled_at[k] >= m3.popped_at[j + 1] })
           ELSE 0)

C30_HeldThenStepped ==
    phase \in {"m3", "done"} =>
        /\ Len(m3.popped_at) = Len(m3.popped)
        /\ Len(m3.executed_at) = Len(m3.executed)
        /\ IsPrefix(m3.executed, m3.popped)
        /\ Len(m3.popped) <= Len(m3.executed) + 1
        /\ m3.execute_unit.processing => Len(m3.popped) = Len(m3.executed) + 1
        /\ (m3.status # "panic" /\ Len(m3.popped) = Len(m3.executed) + 1)
              => m3.execute_unit.processing
        /\ \A j \in 1 .. Len(m3.executed) :
              /\ m3.executed_at[j] = m3.popped_at[j] + C30_HeldTicks(OpAt(m3.popped[j])) - 1
                                                     + C30_Stalls(j)
              /\ j < Len(m3.popped) => m3.popped_at[j + 1] > m3.executed_at[j]

\* lw t0 stepped in its 50th tick in execute, the addi after it in its first,
\* and the add that reads t0 in its second, after one stall.
C30_LoadHeldFifty ==
    /\ phase = "done"
    /\ m3.status = "ok"
    /\ Instructions = << Lw("T0", 0, "ZERO"), Addi("T0", "ZERO", 2), Add("T1", "T0", "T0") >>
    /\ m3.popped = << 0, 1, 2 >>
    /\ m3.executed = << 0, 1, 2 >>
    /\ m3.executed_at[1] = m3.popped_at[1] + 49
    /\ m3.executed_at[2] = m3.popped_at[2]
    /\ m3.executed_at[3] = m3.popped_at[3] + 1
    /\ m3.stalled_at = << m3.popped_at[3] >>

(***************************************************************************)
(* C31: a store that completes leaves every register as it was and changes *)
(* only the 1 (SB), 2 (SH) or 4 (SW) bytes from rs1 + offset on, which     *)
(* become the low lanes of rs2; this in the reference run, M1, M2 and the  *)
(* step of M3.  In M3 memory changes in no other tick, and a register      *)
(* changes in a tick only if an instruction that is not a store and writes *)
(* it was retired in that tick: the write-back of a store commits nothing. *)
(***************************************************************************)
IsStore(ins) == ins.op \in {"SB", "SH", "SW"}

StoreWidth(op) == CASE op = "SB" -> 1 [] op = "SH" -> 2 [] OTHER -> 4

C31_Frame(before, after, ins) ==
    LET a == before.registers[ins.rs1] + ins.imm
        v == before.registers[ins.rs2]
    IN  /\ after.registers = before.registers
        /\ \A b \in DOMAIN before.memory :
              after.memory[b] = IF b >= a /\ b < a + StoreWidth(ins.op)
                                THEN LaneOf(v, b - a)
                                ELSE before.memory[b]

\* The machine m has run one step, of a store, and is m_after.
C31_Stepped(name, m, m_after) ==
    /\ phase = name
    /\ m_after.steps = m.steps + 1
    /\ IsStore(InsAt(TruncDiv(m.ctx.pc, 4)))

C31_Sequential(name, m, m_after) ==
    C31_Stepped(name, m, m_after)
        => C31_Frame(m.ctx, m_after.ctx, InsAt(TruncDiv(m.ctx.pc, 4)))

C31_Retired == Gained(m3.retired, m3'.retired)

C31_Pipelined ==
    FullTick =>
        /\ IF m3'.stepped /\ IsStore(InsAt(m3'.executed[Len(m3'.executed)]))
           THEN C31_Frame(m3.ctx, m3'.ctx, InsAt(m3'.executed[Len(m3'.executed)]))
           ELSE m3'.ctx.memory = m3.ctx.memory
        /\ \A r \in RegisterType :
              m3'.ctx.registers[r] # m3.ctx.registers[r]
                  => \E k \in 1 .. Len(C31_Retired) :
                        /\ ~IsStore(InsAt(C31_Retired[k]))
                        /\ write_registers(InsAt(C31_Retired[k])) = << r >>

C31_StoreFrame ==
    [][/\ C31_Sequential("ref", ref, ref')
       /\ C31_Sequential("m1", m1, m1')
       /\ C31_Sequential("m2", m2, m2')
       /\ C31_Pipelined]_vars

\* M3 has run sw t0, 1(zero) with t0 = 258 and then sb t1, 2(zero) with
\* t1 = -1, and retired both: bytes 1 and 2 hold 2 and -1, the registers
\* are those the two addi wrote.
C31_StoresRetired ==
    /\ phase = "done"
    /\ m3.status = "ok"
    /\ m3.start.registers = ZeroRegisters
    /\ Instructions = << Addi("T0", "ZERO", 258), Ins("SW", "ZERO", "ZERO", "T0", 1, ""),
                         Addi("T1", "ZERO", 0 - 1), Ins("SB", "ZERO", "ZERO", "T1", 2, "") >>
    /\ m3.retired = << 0, 1, 2, 3 >>
    /\ m3.ctx.memory = (0 :> 0 @@ 1 :> 2 @@ 2 :> (0 - 1) @@ 3 :> 0 @@ 4 :> 0 @@ 5 :> 0)
    /\ m3.ctx.registers = [ZeroRegisters EXCEPT !["T0"] = 258, !["T1"] = 0 - 1]

(***************************************************************************)
(* C32: at every point of a run, in the reference run, M1, M2 and M3, the  *)
(* machine pc is a non-negative multiple of 4, also after a JALR.          *)
(***************************************************************************)
C32_Legal(pc) == pc >= 0 /\ pc % 4 = 0

C32_PcAligned ==
    /\ C32_Legal(ref.ctx.pc)
    /\ C32_Legal(m1.ctx.pc)
    /\ C32_Legal(m2.ctx.pc)
    /\ C32_Legal(m3.ctx.pc)

(***************************************************************************)
(* C33: the fetch unit of M3 never enqueues an index that is not an index  *)
(* of the program, for the empty program and after a flush to the label    *)
(* after the last instruction too, so decode never panics and M3 ends a    *)
(* run that the reference run ends.                                        *)
(***************************************************************************)
C33_FetchInRange ==
    /\ \A k \in 1 .. Len(m3.fetched) : m3.fetched[k] >= 0 /\ m3.fetched[k] < N
    /\ (phase = "done" /\ ref.status = "ok") => m3.status # "panic"

(***************************************************************************)
(* C34: in M3 every step runs with the machine pc at the address of its    *)
(* own instruction, 4 times its index in the program.                      *)
(***************************************************************************)
C34_StepAtOwnAddress ==
    \A j \in 1 .. Len(m3.executed) : m3.from[j] = 4 * m3.executed[j]

(***************************************************************************)
(* C35: at the end of every tick of M3 the indices fetched since the last  *)
(* flush are, in order, those decoded since then followed by those on the  *)
(* fetch->decode bus; the indices decoded since then are those popped by   *)
(* execute followed by those on the decode->execute bus; the indices       *)
(* popped are those executed followed by the one execute holds; the        *)
(* indices executed are those retired followed by those on the write bus.  *)
(* No bus or stage drops, duplicates or reorders an element.               *)
(***************************************************************************)
\* The elements on a bus, the oldest first.
Zones(bus) == bus.queue \o bus.buffer \o bus.entry

Since(q, n) == SubSeq(q, n + 1, Len(q))

C35_HeldInExecute ==
    IF m3.execute_unit.processing THEN << m3.execute_unit.runner >> ELSE << >>

C35_OnWriteBus == [k \in 1 .. Len(Zones(m3.write_bus)) |-> Zones(m3.write_bus)[k].idx]

C35_InFetchOrder ==
    (phase \in {"m3", "done"} /\ TickEnded) =>
        /\ Since(m3.fetched, m3.epoch.fetched)
              = Since(m3.decoded, m3.epoch.decoded) \o Zones(m3.decode_bus)
        /\ Since(m3.decoded, m3.epoch.decoded)
              = Since(m3.popped, m3.epoch.popped) \o Zones(m3.execute_bus)
        /\ m3.popped = m3.executed \o C35_HeldInExecute
        /\ m3.executed = m3.retired \o C35_OnWriteBus

\* The lw is held in execute; the addi and the add fetched after it wait in
\* the queue and in the buffer of the decode->execute bus.
C35_WaitingInOrder ==
    /\ phase = "m3"
    /\ m3.status = "running"
    /\ Instructions = << Lw("T0", 0, "ZERO"), Addi("T0", "ZERO", 2), Add("T1", "T0", "T0") >>
    /\ m3.execute_unit.processing
    /\ m3.fetched = << 0, 1, 2 >>
    /\ m3.decoded = << 0, 1, 2 >>
    /\ m3.popped = << 0 >>
    /\ m3.execute_bus.queue = << 1 >>
    /\ m3.execute_bus.buffer = << 2 >>

(***************************************************************************)
(* C36: at the end of every tick of M3 the entry zone of each bus is       *)
(* empty, its buffer holds at most one element and its queue at most       *)
(* max = 1; and fetch, decode and execute add to their bus only in a tick  *)
(* in which the bus, as they find it, has neither a full queue nor a full  *)
(* entry.                                                                  *)
(***************************************************************************)
C36_Zones(bus) ==
    /\ Len(bus.entry) = 0
    /\ Len(bus.buffer) <= 1
    /\ Len(bus.queue) <= 1

C36_Full(bus) == Len(bus.queue) = 1 \/ Len(bus.entry) = 1

C36_BoundedZones ==
    [][FullTick =>
          /\ C36_Zones(m3'.decode_bus) /\ C36_Zones(m3'.execute_bus) /\ C36_Zones(m3'.write_bus)
          /\ Len(m3'.fetched) > Len(m3.fetched) => ~C36_Full(m3.decode_bus)
          /\ Len(m3'.decoded) > Len(m3.decoded) => ~C36_Full(m3.execute_bus)
          /\ m3'.stepped => ~C36_Full(m3.write_bus)]_vars

\* The lw is held in execute, two instructions wait in the queue and the
\* buffer of the decode->execute bus, two more in the queue and the buffer
\* of the fetch->decode bus, and the fetch unit, its access done, waits to
\* add the next.
C36_FetchWaits ==
    /\ phase = "m3"
    /\ m3.status = "running"
    /\ m3.execute_unit.processing
    /\ m3.execute_unit.runner = 0
    /\ m3.execute_bus = [entry |-> << >>, buffer |-> << 2 >>, queue |-> << 1 >>]
    /\ m3.decode_bus = [entry |-> << >>, buffer |-> << 4 >>, queue |-> << 3 >>]
    /\ m3.fetch_unit.processing
    /\ m3.fetch_unit.remaining_cycles = 1
    /\ m3.fetch_unit.pc = 20

(***************************************************************************)
(* C37: when M1 and M2 have both run a program from the same state, they   *)
(* have stopped the same way after the same number of passes of their      *)
(* loop, and the cycles M2 has counted are at most those M1 has counted.   *)
(***************************************************************************)
C37_M2NotSlower ==
    phase \in {"m3", "done"} =>
        /\ m2.status = m1.status
        /\ m2.steps = m1.steps
        /\ m2.ctx = m1.ctx
        /\ m2.cycles <= m1.cycles

\* Both have run the addi of the simple test program six times: M1 has
\* counted 53 cycles each time, M2 53 for the first pass and 4 for each of
\* the five others.
C37_CacheSaves ==
    /\ phase = "done"
    /\ application = TestSimple
    /\ m1.steps = MaxSteps /\ m2.steps = MaxSteps
    /\ m1.cycles = MaxSteps * 53
    /\ m2.cycles = 53 + (MaxSteps - 1) * 4

(***************************************************************************)
(* C38: a step of a conditional branch, taken or not, or of a NOP leaves   *)
(* every register and every byte of memory as it found them, in the        *)
(* reference run, M1 and M2; in M3 the tick that executes one leaves       *)
(* memory unchanged and a tick that retires nothing but branches and NOPs  *)
(* leaves the registers unchanged.                                         *)
(***************************************************************************)
IsBranchOrNop(ins) == ins.op \in SixBranches \cup {"NOP"}

C38_Sequential(name, m, m_after) ==
    (/\ phase = name
     /\ m_after.steps = m.steps + 1
     /\ IsBranchOrNop(InsAt(TruncDiv(m.ctx.pc, 4))))
        => /\ m_after.ctx.registers = m.ctx.registers
           /\ m_after.ctx.memory = m.ctx.memory

C38_Pipelined ==
    FullTick =>
        /\ (\A k \in DOMAIN Gained(m3.retired, m3'.retired) :
                IsBranchOrNop(InsAt(Gained(m3.retired, m3'.retired)[k])))
              => m3'.ctx.registers = m3.ctx.registers
        /\ (m3'.stepped /\ IsBranchOrNop(InsAt(m3'.executed[Len(m3'.executed)])))
              => m3'.ctx.memory = m3.ctx.memory

C38_BranchFrame ==
    [][/\ C38_Sequential("ref", ref, ref')
       /\ C38_Sequential("m1", m1, m1')
       /\ C38_Sequential("m2", m2, m2')
       /\ C38_Pipelined]_vars

\* M3 has run the program of the taken-branch test and retired the two addi,
\* the beq and the addi at foo: t0 and t1 are 1 as the first two left them,
\* t2 is 3, memory is as the run found it.
C38_BranchRetired ==
    /\ phase = "done"
    /\ application = TestBranchTrue
    /\ m3.status = "ok"
    /\ m3.retired = << 0, 1, 2, 4 >>
    /\ m3.ctx.registers = [ZeroRegisters EXCEPT !["T0"] = 1, !["T1"] = 1, !["T2"] = 3]
    /\ m3.ctx.memory = m3.start.memory

====
